---- MODULE Spec2Model ----
(***************************************************************************)
(* Financial knowledge-graph builder: the web pipeline coordinator         *)
(* (app.py: start_pipeline, run_pipeline_async, get_pipeline_status) and   *)
(* the graph loader (src/e_neo4j_loading/neo4j_loading.py).                *)
(*                                                                         *)
(* Spec      the coordinator: request handlers, background workers and a   *)
(*           status observer interleaved statement by statement.           *)
(* SpecLoad  the loader: run_loading applied, load after load, to a store  *)
(*           with the semantics of the two Cypher statements.              *)
(***************************************************************************)
EXTENDS Integers, Sequences, FiniteSets, TLC

(***************************************************************************)
(* Bounds                                                                  *)
(***************************************************************************)
MaxRuns == 2          \* start requests received in one behaviour

\* two request-handling threads and two worker threads alive at a time: the
\* least that lets start requests, and runs, overlap
Handlers == {1, 2}

Workers == {1, 2}

\* the size of a stage's output
Counts == {3}

(***************************************************************************)
(* The status record (app.py:65-80) and the values the code writes to it   *)
(***************************************************************************)
NoError == ""

StageIds == <<"A", "B", "C", "D", "E", "F">>

StageSet == {StageIds[i] : i \in 1..Len(StageIds)}

StageName(s) ==
    CASE s = "A" -> "Data Ingestion"
      [] s = "B" -> "Text Preprocessing"
      [] s = "C" -> "Entity Extraction"
      [] s = "D" -> "Entity Resolution"
      [] s = "E" -> "Neo4j Loading"
      [] s = "F" -> "Query Service"

Checkpoint(s) ==
    CASE s = "A" -> 10
      [] s = "B" -> 30
      [] s = "C" -> 50
      [] s = "D" -> 70
      [] s = "E" -> 90
      [] s = "F" -> 95

\* a message is a format text with the values interpolated into it
Msg(text, args) == <<text, args>>

StageMessage(s, sample_size) ==
    CASE s = "A" -> Msg("Collecting financial news articles...", <<>>)
      [] s = "B" -> Msg("Preprocessing and chunking text...", <<>>)
      [] s = "C" -> Msg("Extracting entities from {} chunks...", <<sample_size>>)
      [] s = "D" -> Msg("Resolving and canonicalizing entities...", <<>>)
      [] s = "E" -> Msg("Loading data into Neo4j...", <<>>)
      [] s = "F" -> Msg("Initializing query service...", <<>>)

ResultMessage(s, n, m) ==
    CASE s = "A" -> Msg("Collected {} articles", <<n>>)
      [] s = "B" -> Msg("Created {} text chunks", <<n>>)
      [] s = "C" -> Msg("Extracted entities from {} chunks", <<n>>)
      [] s = "D" -> Msg("Created {} nodes and {} relationships", <<n, m>>)

FailMessage(err) == Msg("Pipeline failed: {}", <<err>>)

StageError(s) == "exception in stage " \o s

LoadFailed == "Failed to load data into Neo4j"

ZeroStats ==
    [articles_collected |-> 0, chunks_created |-> 0, entities_extracted |-> 0,
     nodes_created |-> 0, relationships_created |-> 0]

InitialStatus ==
    [running |-> FALSE, current_stage |-> "", stage_name |-> "", progress |-> 0,
     message |-> Msg("Ready to start pipeline", <<>>), error |-> NoError,
     completed |-> FALSE, stats |-> ZeroStats]

ResetStatus ==
    [running |-> TRUE, current_stage |-> "Starting", stage_name |-> "Initializing",
     progress |-> 0, message |-> Msg("Starting pipeline...", <<>>), error |-> NoError,
     completed |-> FALSE, stats |-> ZeroStats]

SampleSizes == {50}

Requests == [sample_size : SampleSizes, run_ingestion : BOOLEAN]

NoRequest == [sample_size |-> 0, run_ingestion |-> FALSE]

\* responses: (route, HTTP status, body)
NoResponse == <<"", 0, "">>

AlreadyRunning == <<"start", 400, "Pipeline is already running">>

Started == <<"start", 200, "Pipeline started successfully">>

StatusResponse(record) == <<"status", 200, record>>

VARIABLES
    pipeline_status,   \* the global status dict
    query_service,     \* TRUE when the global query service is initialised
    hpc,               \* start_pipeline: position of each handler thread
    hreq,              \* start_pipeline: the request's JSON body
    wpc,               \* run_pipeline_async: position of each worker thread
    warg,              \* run_pipeline_async: (sample_size, run_ingestion)
    wlen,              \* run_pipeline_async: the len(...) values of the stage
    werr,              \* run_pipeline_async: the exception being handled
    runs,              \* start requests received so far
    response           \* the HTTP response sent by the step just taken, if any

coordVars == <<pipeline_status, query_service, hpc, hreq, wpc, warg, wlen, werr, runs, response>>

VARIABLES
    nodes,             \* the store: its nodes
    rels,              \* the store: its relationships
    import_dir,        \* the container's import directory: name -> CSV rows
    lpc,               \* run_loading: position of each load
    staged,            \* run_loading: the CSV files nodes_csv and rels_csv
    nodes_docker,      \* run_loading: copy_to_docker gave a name for the nodes
    rels_docker,       \* run_loading: copy_to_docker gave a name for the relations
    nodes_ok,          \* run_loading: what load_nodes_csv returned
    rels_ok,           \* run_loading: what load_relationships_csv returned
    result,            \* run_loading: the value returned to the caller
    escaped,           \* run_loading: an exception left the call instead
    before,            \* the store when the load began
    again              \* the load repeats the batch of the successful load before it

loadVars == <<nodes, rels, import_dir, lpc, staged, nodes_docker, rels_docker, nodes_ok, rels_ok, result,
              escaped, before, again>>

VARIABLES
    extracted,         \* run_resolution: the rows of the extracted parquet file
    rpc,               \* run_resolution: its position
    row_i,             \* run_resolution: rows cleaned so far
    entity_cache,      \* EntityResolutionService.entity_cache
    all_entities,      \* run_resolution: all_entities
    all_relations,     \* run_resolution: all_relations
    answered,          \* what the chat completions gave for the row just cleaned
    resolved           \* run_resolution: the returned {"nodes", "relations"}

resVars == <<extracted, rpc, row_i, entity_cache, all_entities, all_relations, answered, resolved>>

VARIABLES
    cpc,               \* run_complete_pipeline: its position
    cargs,             \* run_complete_pipeline: skip_to_stage and run_ingestion
    clocals,           \* run_complete_pipeline: which of its four locals are set
    disk,              \* the artifacts under base_data_dir
    clog,              \* the stage services called by the run, in order
    cresult            \* run_complete_pipeline: the value returned

cliVars == <<cpc, cargs, clocals, disk, clog, cresult>>

VARIABLES
    processed_dir,     \* base_data_dir/processed: whether it exists, and its files
    asked,             \* which of the two _get_latest_... functions was called last
    latest              \* what that call returned

fileVars == <<processed_dir, asked, latest>>

VARIABLES
    sample_df,         \* the chunks run_extraction goes through
    results,           \* the records collected so far
    reply,             \* what the language-model call gave for the chunk at hand
    chunk_result,      \* what extract_from_chunk returned for it (result, line 94)
    output_path        \* TRUE once the records are written

extractVars == <<sample_df, results, reply, chunk_result, output_path>>

vars == <<coordVars, loadVars, resVars, cliVars, fileVars, extractVars>>

(***************************************************************************)
(* Positions of a worker inside run_pipeline_async                         *)
(***************************************************************************)
PC(kind, s) == <<kind, s>>

Unborn == PC("unborn", "")

Done == PC("done", "")

Active(w) == wpc[w] \notin {Unborn, Done}

NextStage(s) ==
    CASE s = "A" -> "B"
      [] s = "B" -> "C"
      [] s = "C" -> "D"
      [] s = "D" -> "E"
      [] s = "E" -> "F"

InitCoordinator ==
    /\ pipeline_status = InitialStatus
    /\ query_service \in BOOLEAN
    /\ hpc = [h \in Handlers |-> "idle"]
    /\ hreq = [h \in Handlers |-> NoRequest]
    /\ wpc = [w \in Workers |-> Unborn]
    /\ warg = [w \in Workers |-> NoRequest]
    /\ wlen = [w \in Workers |-> <<0, 0>>]
    /\ werr = [w \in Workers |-> NoError]
    /\ runs = 0
    /\ response = NoResponse

(***************************************************************************)
(* start_pipeline (app.py:277-315)                                         *)
(***************************************************************************)
\* a POST /api/pipeline/start reaches a free handler thread that has a
\* worker slot to give its run
Pending == {h \in Handlers : hpc[h] # "idle"}

StartReceive(h) ==
    /\ UNCHANGED <<loadVars, resVars, cliVars, fileVars, extractVars>>
    /\ hpc[h] = "idle"
    /\ runs < MaxRuns
    /\ Cardinality(Pending) + Cardinality({w \in Workers : Active(w)}) < Cardinality(Workers)
    /\ \E r \in Requests : hreq' = [hreq EXCEPT ![h] = r]
    /\ hpc' = [hpc EXCEPT ![h] = "check"]
    /\ runs' = runs + 1
    /\ response' = NoResponse
    /\ UNCHANGED <<pipeline_status, query_service, wpc, warg, wlen, werr>>

\* the single-flight test left out: every request goes on to reset and spawn
StartCheckNoTest(h) ==
    /\ UNCHANGED <<loadVars, resVars, cliVars, fileVars, extractVars>>
    /\ hpc[h] = "check"
    /\ hpc' = [hpc EXCEPT ![h] = "reset"]
    /\ response' = NoResponse
    /\ UNCHANGED <<pipeline_status, query_service, hreq, wpc, warg, wlen, werr, runs>>

\* app.py:282-283: the single-flight test, one read of pipeline_status["running"]
StartCheck(h) ==
    /\ UNCHANGED <<loadVars, resVars, cliVars, fileVars, extractVars>>
    /\ hpc[h] = "check"
    /\ IF pipeline_status.running
          THEN /\ response' = AlreadyRunning
               /\ hpc' = [hpc EXCEPT ![h] = "idle"]
               /\ hreq' = [hreq EXCEPT ![h] = NoRequest]
          ELSE /\ hpc' = [hpc EXCEPT ![h] = "reset"]
               /\ response' = NoResponse
               /\ UNCHANGED hreq
    /\ UNCHANGED <<pipeline_status, query_service, wpc, warg, wlen, werr, runs>>

\* app.py:290-305: the global is rebound to a fresh dict
StartReset(h) ==
    /\ UNCHANGED <<loadVars, resVars, cliVars, fileVars, extractVars>>
    /\ hpc[h] = "reset"
    /\ pipeline_status' = ResetStatus
    /\ hpc' = [hpc EXCEPT ![h] = "spawn"]
    /\ response' = NoResponse
    /\ UNCHANGED <<query_service, hreq, wpc, warg, wlen, werr, runs>>

\* app.py:308-315: the worker thread is started and the handler answers
StartSpawn(h) ==
    /\ UNCHANGED <<loadVars, resVars, cliVars, fileVars, extractVars>>
    /\ hpc[h] = "spawn"
    /\ \E w \in Workers :
          /\ ~Active(w)
          /\ \A v \in Workers : v < w => Active(v)
          /\ wpc' = [wpc EXCEPT ![w] = PC("set_running", "")]
          /\ warg' = [warg EXCEPT ![w] = hreq[h]]
          /\ wlen' = [wlen EXCEPT ![w] = <<0, 0>>]
          /\ werr' = [werr EXCEPT ![w] = NoError]
    /\ response' = Started
    /\ hpc' = [hpc EXCEPT ![h] = "idle"]
    /\ hreq' = [hreq EXCEPT ![h] = NoRequest]
    /\ UNCHANGED <<pipeline_status, query_service, runs>>

(***************************************************************************)
(* get_pipeline_status (app.py:317-320).  jsonify encodes the dict the     *)
(* global names at that moment; its top-level items are taken in one       *)
(* interpreter-atomic step, so the snapshot is one value of the record.    *)
(***************************************************************************)
GetPipelineStatus ==
    /\ UNCHANGED <<loadVars, resVars, cliVars, fileVars, extractVars>>
    /\ response' = StatusResponse(pipeline_status)
    /\ UNCHANGED <<pipeline_status, query_service, hpc, hreq, wpc, warg, wlen, werr, runs>>

(***************************************************************************)
(* run_pipeline_async (app.py:109-262)                                     *)
(***************************************************************************)
WorkerFrame == <<query_service, hpc, hreq, runs>>

\* the thread ends and its locals with it
Exit(w) ==
    /\ wpc' = [wpc EXCEPT ![w] = Done]
    /\ warg' = [warg EXCEPT ![w] = NoRequest]
    /\ wlen' = [wlen EXCEPT ![w] = <<0, 0>>]
    /\ werr' = [werr EXCEPT ![w] = NoError]
    /\ response' = NoResponse

Goto(w, pc) ==
    /\ wpc' = [wpc EXCEPT ![w] = pc]
    /\ response' = NoResponse

\* app.py:114
WorkerSetRunning(w) ==
    /\ UNCHANGED <<loadVars, resVars, cliVars, fileVars, extractVars>>
    /\ wpc[w] = PC("set_running", "")
    /\ pipeline_status' = [pipeline_status EXCEPT !.running = TRUE]
    /\ Goto(w, PC("set_error", ""))
    /\ UNCHANGED <<WorkerFrame, warg, wlen, werr>>

\* app.py:115
WorkerSetError(w) ==
    /\ UNCHANGED <<loadVars, resVars, cliVars, fileVars, extractVars>>
    /\ wpc[w] = PC("set_error", "")
    /\ pipeline_status' = [pipeline_status EXCEPT !.error = NoError]
    /\ Goto(w, PC("set_completed", ""))
    /\ UNCHANGED <<WorkerFrame, warg, wlen, werr>>

\* app.py:116
WorkerSetCompleted(w) ==
    /\ UNCHANGED <<loadVars, resVars, cliVars, fileVars, extractVars>>
    /\ wpc[w] = PC("set_completed", "")
    /\ pipeline_status' = [pipeline_status EXCEPT !.completed = FALSE]
    /\ Goto(w, PC("update", "A"))
    /\ UNCHANGED <<WorkerFrame, warg, wlen, werr>>

\* app.py:123-128, 158-163, 177-182, 194-199, 211-216, 233-238:
\* one dict.update call per stage transition
StageUpdate(w, s) ==
    /\ UNCHANGED <<loadVars, resVars, cliVars, fileVars, extractVars>>
    /\ wpc[w] = PC("update", s)
    /\ pipeline_status' = [pipeline_status EXCEPT
            !.current_stage = s,
            !.stage_name = StageName(s),
            !.progress = Checkpoint(s),
            !.message = StageMessage(s, warg[w].sample_size)]
    /\ Goto(w, PC("work", s))
    /\ UNCHANGED <<WorkerFrame, warg, wlen, werr>>

\* the exception swallowed: the run goes on as if the stage had succeeded
RaiseSwallowed(w, err) ==
    /\ werr' = [werr EXCEPT ![w] = err]
    /\ Goto(w, PC("complete", ""))

\* the stage's call raised: control passes to the except clause
Raise(w, err) ==
    /\ werr' = [werr EXCEPT ![w] = err]
    /\ Goto(w, PC("except", ""))

\* app.py:130-150 (A), 165-170 (B), 184-187 (C), 201-202 (D): the stage's
\* collaborator is called and the size of its output is taken
StageWork(w, s) ==
    /\ UNCHANGED <<loadVars, resVars, cliVars, fileVars, extractVars>>
    /\ s \in {"A", "B", "C", "D"}
    /\ wpc[w] = PC("work", s)
    /\ \/ /\ \E n \in Counts, m \in (IF s = "D" THEN Counts ELSE {0}) :
               wlen' = [wlen EXCEPT ![w] = <<n, m>>]
          /\ Goto(w, PC("stats", s))
          /\ UNCHANGED werr
       \/ /\ Raise(w, StageError(s))
          /\ UNCHANGED wlen
    /\ UNCHANGED <<pipeline_status, WorkerFrame, warg>>

StatsField(s) ==
    CASE s = "A" -> "articles_collected"
      [] s = "B" -> "chunks_created"
      [] s = "C" -> "entities_extracted"
      [] s = "D" -> "nodes_created"

\* app.py:152, 171, 188, 204
StageStats(w, s) ==
    /\ UNCHANGED <<loadVars, resVars, cliVars, fileVars, extractVars>>
    /\ s \in {"A", "B", "C", "D"}
    /\ wpc[w] = PC("stats", s)
    /\ pipeline_status' = [pipeline_status EXCEPT !.stats[StatsField(s)] = wlen[w][1]]
    /\ Goto(w, IF s = "D" THEN PC("stats2", s) ELSE PC("message", s))
    /\ UNCHANGED <<WorkerFrame, warg, wlen, werr>>

\* app.py:205
StageStats2(w) ==
    /\ UNCHANGED <<loadVars, resVars, cliVars, fileVars, extractVars>>
    /\ wpc[w] = PC("stats2", "D")
    /\ pipeline_status' = [pipeline_status EXCEPT !.stats.relationships_created = wlen[w][2]]
    /\ Goto(w, PC("message", "D"))
    /\ UNCHANGED <<WorkerFrame, warg, wlen, werr>>

\* app.py:153, 172, 189, 206
StageResult(w, s) ==
    /\ UNCHANGED <<loadVars, resVars, cliVars, fileVars, extractVars>>
    /\ s \in {"A", "B", "C", "D"}
    /\ wpc[w] = PC("message", s)
    /\ pipeline_status' = [pipeline_status EXCEPT
            !.message = ResultMessage(s, wlen[w][1], wlen[w][2])]
    /\ Goto(w, PC("update", NextStage(s)))
    /\ UNCHANGED <<WorkerFrame, warg, wlen, werr>>

\* app.py:218-228: run_loading answers with a boolean; False is turned into
\* an exception by the coordinator
LoadWork(w) ==
    /\ UNCHANGED <<loadVars, resVars, cliVars, fileVars, extractVars>>
    /\ wpc[w] = PC("work", "E")
    /\ \/ /\ Goto(w, PC("update", "F"))
          /\ UNCHANGED werr
       \/ Raise(w, LoadFailed)
       \/ Raise(w, StageError("E"))
    /\ UNCHANGED <<pipeline_status, WorkerFrame, warg, wlen>>

\* app.py:241 with init_query_service (app.py:86-100): the constructor's
\* exception is caught there and the returned flag is not looked at
ServeWork(w) ==
    /\ UNCHANGED <<loadVars, resVars, cliVars, fileVars, extractVars>>
    /\ wpc[w] = PC("work", "F")
    /\ \/ query_service' = TRUE
       \/ UNCHANGED query_service
    /\ Goto(w, PC("complete", ""))
    /\ UNCHANGED <<pipeline_status, hpc, hreq, warg, runs, wlen, werr>>

\* app.py:246-253
WorkerComplete(w) ==
    /\ UNCHANGED <<loadVars, resVars, cliVars, fileVars, extractVars>>
    /\ wpc[w] = PC("complete", "")
    /\ pipeline_status' = [pipeline_status EXCEPT
            !.running = FALSE,
            !.current_stage = "Complete",
            !.stage_name = "Complete",
            !.progress = 100,
            !.message = Msg("Pipeline completed successfully!", <<>>),
            !.completed = TRUE]
    /\ Exit(w)
    /\ UNCHANGED WorkerFrame

\* an except clause that moves the record to a stage of its own
WorkerExceptFailedStage(w) ==
    /\ UNCHANGED <<loadVars, resVars, cliVars, fileVars, extractVars>>
    /\ wpc[w] = PC("except", "")
    /\ pipeline_status' = [pipeline_status EXCEPT
            !.running = FALSE,
            !.current_stage = "Failed",
            !.stage_name = "Failed",
            !.error = werr[w],
            !.message = FailMessage(werr[w]),
            !.completed = FALSE]
    /\ Exit(w)
    /\ UNCHANGED WorkerFrame

\* app.py:255-262
\* an except clause that leaves the running flag as it was
WorkerExceptLeavesRunning(w) ==
    /\ UNCHANGED <<loadVars, resVars, cliVars, fileVars, extractVars>>
    /\ wpc[w] = PC("except", "")
    /\ pipeline_status' = [pipeline_status EXCEPT
            !.error = werr[w],
            !.message = FailMessage(werr[w]),
            !.completed = FALSE]
    /\ Exit(w)
    /\ UNCHANGED WorkerFrame

WorkerExcept(w) ==
    /\ UNCHANGED <<loadVars, resVars, cliVars, fileVars, extractVars>>
    /\ wpc[w] = PC("except", "")
    /\ pipeline_status' = [pipeline_status EXCEPT
            !.running = FALSE,
            !.error = werr[w],
            !.message = FailMessage(werr[w]),
            !.completed = FALSE]
    /\ Exit(w)
    /\ UNCHANGED WorkerFrame

Next ==
    \/ \E h \in Handlers : StartReceive(h)
    \/ \E h \in Handlers : StartCheck(h)
    \/ \E h \in Handlers : StartReset(h)
    \/ \E h \in Handlers : StartSpawn(h)
    \/ GetPipelineStatus
    \/ \E w \in Workers : WorkerSetRunning(w)
    \/ \E w \in Workers : WorkerSetError(w)
    \/ \E w \in Workers : WorkerSetCompleted(w)
    \/ \E w \in Workers, s \in StageSet : StageUpdate(w, s)
    \/ \E w \in Workers, s \in StageSet : StageWork(w, s)
    \/ \E w \in Workers, s \in StageSet : StageStats(w, s)
    \/ \E w \in Workers : StageStats2(w)
    \/ \E w \in Workers, s \in StageSet : StageResult(w, s)
    \/ \E w \in Workers : LoadWork(w)
    \/ \E w \in Workers : ServeWork(w)
    \/ \E w \in Workers : WorkerComplete(w)
    \/ \E w \in Workers : WorkerExcept(w)


(***************************************************************************)
(* GraphBatch: the nodes and relations DataFrames handed to run_loading,   *)
(* written down cell by cell as DataFrame.to_csv writes them (None is the  *)
(* empty cell).  run_resolution has dropped rows that repeat an id, or a   *)
(* (start_id, end_id, type), before the batch reaches the loader.          *)
(***************************************************************************)
MaxNodeRows == 2      \* rows of a nodes DataFrame
MaxEdgeRows == 2      \* rows of a relations DataFrame

NodeRows ==
    {[id |-> "id-apple", name |-> "Apple", label |-> "Company",
      source |-> "newsapi", article_id |-> "a1", published_at |-> "t1"],
     [id |-> "id-apple", name |-> "apple", label |-> "Entity",
      source |-> "fmp", article_id |-> "a2", published_at |-> "t2"],
     [id |-> "id-tim", name |-> "Tim Cook", label |-> "Person",
      source |-> "newsapi", article_id |-> "a1", published_at |-> "t1"]}

\* the first two rows share a key; the third names a start_id that no node
\* row carries
EdgeRows ==
    {[start_id |-> "id-apple", end_id |-> "id-tim", type |-> "HAS_CEO",
      confidence |-> "0.9", source |-> "newsapi", article_id |-> "a1", published_at |-> "t1"],
     [start_id |-> "id-apple", end_id |-> "id-tim", type |-> "HAS_CEO",
      confidence |-> "", source |-> "fmp", article_id |-> "a2", published_at |-> "t2"],
     [start_id |-> "id-tesla", end_id |-> "id-apple", type |-> "COMPETES_WITH",
      confidence |-> "0.9", source |-> "newsapi", article_id |-> "a1", published_at |-> "t1"]}

SeqsUpTo(S, n) == UNION {[1..k -> S] : k \in 0..n}

EdgeKey(row) == <<row.start_id, row.end_id, row.type>>

NodeFrames ==
    {f \in SeqsUpTo(NodeRows, MaxNodeRows) :
        \A i, j \in DOMAIN f : f[i].id = f[j].id => i = j}

EdgeFrames ==
    {f \in SeqsUpTo(EdgeRows, MaxEdgeRows) :
        \A i, j \in DOMAIN f : EdgeKey(f[i]) = EdgeKey(f[j]) => i = j}

Batches == [nodes : NodeFrames, relations : EdgeFrames]

Loads == {1}

NoFiles == [nodes |-> <<>>, relations |-> <<>>]

EmptyStore == [nodes |-> {}, rels |-> {}]

Store == [nodes |-> nodes, rels |-> rels]

InitLoader ==
    /\ nodes = {}
    /\ rels = {}
    /\ import_dir = NoFiles
    /\ lpc = [l \in Loads |-> "idle"]
    /\ staged = [l \in Loads |-> NoFiles]
    /\ nodes_docker = [l \in Loads |-> FALSE]
    /\ rels_docker = [l \in Loads |-> FALSE]
    /\ nodes_ok = [l \in Loads |-> FALSE]
    /\ rels_ok = [l \in Loads |-> FALSE]
    /\ result = [l \in Loads |-> FALSE]
    /\ escaped = [l \in Loads |-> FALSE]
    /\ before = [l \in Loads |-> EmptyStore]
    /\ again = [l \in Loads |-> FALSE]

(***************************************************************************)
(* Stage D data: text is a tuple of characters, so that strip(), lower(),  *)
(* upper() and replace() are computed                                      *)
(***************************************************************************)
MaxRows == 2          \* rows of an extracted parquet file

Uppers == <<"A", "B", "C", "D", "E", "F", "G", "H", "I", "J", "K", "L", "M",
            "N", "O", "P", "Q", "R", "S", "T", "U", "V", "W", "X", "Y", "Z">>

Lowers == <<"a", "b", "c", "d", "e", "f", "g", "h", "i", "j", "k", "l", "m",
            "n", "o", "p", "q", "r", "s", "t", "u", "v", "w", "x", "y", "z">>

\* Python's None
None == <<"None">>

Apple == <<"A", "p", "p", "l", "e">>
AppleSp == <<" ", "A", "p", "p", "l", "e", " ">>
AppleLow == <<"a", "p", "p", "l", "e">>
TimCook == <<"T", "i", "m", " ", "C", "o", "o", "k">>
AppleInc == <<"A", "p", "p", "l", "e", " ", "I", "n", "c">>
Blank == <<" ", " ">>
HasCeo == <<"h", "a", "s", " ", "C", "E", "O">>
HasCeoUp == <<"H", "A", "S", " ", "C", "E", "O">>
Employs == <<"e", "m", "p", "l", "o", "y", "s">>

Triple(subj, rel, obj) == [subject |-> subj, relation |-> rel, object |-> obj]

\* rows of an extracted parquet file (entity_extraction.py:31-37, 103)
ExtractionRows ==
    {[entities |-> <<AppleSp, TimCook>>,
      relations |-> <<Triple(Apple, HasCeo, TimCook)>>,
      source |-> "newsapi", article_id |-> "a1", published_at |-> "t1"],
     [entities |-> <<AppleLow, Blank>>,
      relations |-> <<Triple(AppleLow, HasCeoUp, TimCook), Triple(Apple, Employs, TimCook)>>,
      source |-> "fmp", article_id |-> "a2", published_at |-> "t2"],
     [entities |-> <<Apple>>,
      relations |-> <<Triple(Apple, HasCeo, TimCook), Triple(None, HasCeo, TimCook),
                      Triple(Apple, <<>>, TimCook)>>,
      source |-> "newsapi", article_id |-> "a3", published_at |-> "t3"],
     [entities |-> <<AppleInc>>,
      relations |-> <<Triple(Blank, HasCeo, TimCook)>>,
      source |-> "fmp", article_id |-> "a4", published_at |-> "t4"],
     \* the record of a chunk whose extraction failed
     \* (entity_extraction.py:39-46): no source, no published_at
     [entities |-> <<>>, relations |-> <<>>,
      source |-> "None", article_id |-> "a5", published_at |-> "None"]}

Extractions == SeqsUpTo(ExtractionRows, MaxRows)

\* what the chat completion gives for one name: a label, or an exception
LlmRaises == "<exception>"

LlmAnswers == {"Company", "Person", "Organization", LlmRaises}

NoData == [nodes |-> <<>>, relations |-> <<>>]

InitResolver ==
    /\ extracted = <<>>
    /\ rpc = "idle"
    /\ row_i = 0
    /\ entity_cache = {}
    /\ all_entities = <<>>
    /\ all_relations = <<>>
    /\ answered = <<>>
    /\ resolved = NoData

(***************************************************************************)
(* The command-line coordinator's data (knowledge_graph_pipeline.py)       *)
(***************************************************************************)
NoSkip == "None"

\* --skip-to takes one of A..F (argparse choices, lines 383-388)
SkipChoices == {NoSkip} \cup StageSet

CliArgs == [skip_to_stage : SkipChoices, run_ingestion : BOOLEAN]

NoArgs == [skip_to_stage |-> NoSkip, run_ingestion |-> TRUE]

\* lines 78-81: articles, processed_path, extracted_path, neo4j_data = None;
\* loading_success is unbound until line 170
NoLocals ==
    [articles |-> "None", processed_path |-> FALSE, extracted_path |-> FALSE,
     neo4j_data |-> FALSE, loading_success |-> "None"]

\* raw/*/*.jsonl.gz, processed/preprocessed_chunks_*.parquet,
\* processed/*_extracted.parquet, neo4j_ready/*.csv
NoArtifacts ==
    [raw |-> FALSE, processed |-> FALSE, extracted |-> FALSE, neo4j_ready |-> FALSE]

InitCli ==
    /\ cpc = "idle"
    /\ cargs = NoArgs
    /\ clocals = NoLocals
    /\ disk = NoArtifacts
    /\ clog = <<>>
    /\ cresult = FALSE

(***************************************************************************)
(* The processed directory: a file name is its parts, so that a glob       *)
(* pattern is matched against it                                           *)
(***************************************************************************)
MaxMtime == 3         \* modification times 1..MaxMtime

\* text_preprocessing.py:102: preprocessed_chunks_<timestamp>.parquet
Chunks(ts) == <<"preprocessed_chunks_", ts, ".parquet">>

\* entity_extraction.py:102: parquet_path.replace(".parquet", "_extracted.parquet")
ChunksExtracted(ts) == <<"preprocessed_chunks_", ts, "_extracted", ".parquet">>

FileNames ==
    {Chunks("t1"), Chunks("t2"), ChunksExtracted("t1"), ChunksExtracted("t2"),
     <<"notes", ".parquet">>}

NoDirectory == [exists |-> FALSE, files |-> {}]

Directories ==
    {NoDirectory} \cup
    UNION {{[exists |-> TRUE, files |-> {[name |-> n, mtime |-> m[n]] : n \in S}] :
               m \in [S -> 1..MaxMtime]} : S \in SUBSET FileNames}

NotCalled == <<"None">>

FileNotFoundError == <<"FileNotFoundError">>

InitFiles ==
    /\ processed_dir = NoDirectory
    /\ asked = "none"
    /\ latest = NotCalled

(***************************************************************************)
(* Stage C data: a reply of the language model is a sequence of tokens,    *)
(* so that the search for a fenced block and for the outermost braces is   *)
(* computed                                                                *)
(***************************************************************************)
MaxChunks == 2        \* chunks of one extraction
MaxTokens == 4        \* tokens of one reply

\* three backticks followed by json, and three backticks
Fence == "<fence>json"

FenceEnd == "<fence>"

Members == "\"entities\": [...], \"relations\": [...]"

Tokens == {Fence, FenceEnd, "{", "}", Members, "[]", "prose"}

Contents == SeqsUpTo(Tokens, MaxTokens)

\* message.content is None
NoContent == <<"None">>

\* between two calls of extract_from_chunk
NoReply == <<"<no call>">>

NoResult == <<>>

\* chat.completions.create raises
CreateRaises == <<"<exception>">>

ChunkRows ==
    {[chunk_id |-> <<"c1">>, article_id |-> <<"a1">>, source |-> <<"newsapi">>,
      title |-> <<"t1">>, published_at |-> <<"d1">>],
     [chunk_id |-> <<"c2">>, article_id |-> <<"a2">>, source |-> <<"fmp">>,
      title |-> <<"t2">>, published_at |-> <<"d2">>]}

InitExtractor ==
    /\ sample_df = <<>>
    /\ results = <<>>
    /\ reply = NoReply
    /\ chunk_result = NoResult
    /\ output_path = FALSE

Init ==
    /\ InitCoordinator /\ InitLoader /\ InitResolver /\ InitCli /\ InitFiles
    /\ InitExtractor

(***************************************************************************)
(* The store under the loader's two Cypher statements                      *)
(* (neo4j_loading.py:25-36 and 50-67)                                      *)
(***************************************************************************)
\* LOAD CSV WITH HEADERS gives null for an empty cell
Null == "<null>"

Cell(text) == IF text = "" THEN Null ELSE text

\* toFloat, in hundredths
ToFloat(text) ==
    CASE text = "0.9" -> 90
      [] text = "1.0" -> 100

\* toFloat(coalesce(row.confidence, 1.0))
Confidence(row) ==
    IF Cell(row.confidence) = Null THEN 100 ELSE ToFloat(Cell(row.confidence))

\* the properties written only when the node is new (ON CREATE SET)
SetNodeOnCreate(n, row) ==
    IF n.name = Null /\ n.label = Null /\ n.source = Null
       THEN [n EXCEPT !.name = Cell(row.name), !.label = Cell(row.label),
                      !.source = Cell(row.source), !.article_id = Cell(row.article_id),
                      !.published_at = Cell(row.published_at),
                      !.labels = n.labels \cup {Cell(row.label)}]
       ELSE [n EXCEPT !.labels = n.labels \cup {Cell(row.label)}]

\* SET n.name = ..., n.published_at = ...; apoc.create.addLabels(n, [row.label])
SetNode(n, row) ==
    [n EXCEPT !.name = Cell(row.name), !.label = Cell(row.label),
              !.source = Cell(row.source), !.article_id = Cell(row.article_id),
              !.published_at = Cell(row.published_at),
              !.labels = n.labels \cup {Cell(row.label)}]

\* a node, like a relationship, is an object of its own: nid (rid) tells
\* apart objects that agree in everything else
NewNode(N, row) ==
    [nid |-> Cardinality({n \in N : n.id = Cell(row.id)}) + 1,
     labels |-> {"Entity"}, id |-> Cell(row.id),
     name |-> Null, label |-> Null, source |-> Null, article_id |-> Null,
     published_at |-> Null]

\* MERGE (n:Entity {id: row.id}) SET ... for one row
MergeNode(N, row) ==
    LET found == {n \in N : "Entity" \in n.labels /\ n.id = Cell(row.id)}
        bound == IF found = {} THEN {NewNode(N, row)} ELSE found
    IN  (N \ found) \cup {SetNode(n, row) : n \in bound}

RECURSIVE LoadNodeRows(_, _)
LoadNodeRows(N, rows) ==
    IF rows = <<>> THEN N
    ELSE LoadNodeRows(MergeNode(N, Head(rows)), Tail(rows))

\* the identifying properties handed to apoc.merge.relationship
IdentProps(row) ==
    [confidence |-> Confidence(row), source |-> Cell(row.source),
     article_id |-> Cell(row.article_id), published_at |-> Cell(row.published_at)]

Endpoint(n) == <<n.id, n.nid>>

NewRel(R, p, row) ==
    LET twins == {r \in R : /\ r.start = Endpoint(p[1]) /\ r.end = Endpoint(p[2])
                            /\ r.type = Cell(row.type)
                            /\ r.props = IdentProps(row)}
    IN  [rid |-> Cardinality(twins) + 1, start |-> Endpoint(p[1]), end |-> Endpoint(p[2]),
         type |-> Cell(row.type), props |-> IdentProps(row)]

\* a relationship created for every pair; nothing is matched
CreateRel(N, R, row) ==
    LET pairs == {<<a, b>> \in N \X N : a.id = Cell(row.start_id) /\ b.id = Cell(row.end_id)}
    IN  R \cup {NewRel(R, p, row) : p \in pairs}

\* MATCH (source {id: row.start_id}) MATCH (target {id: row.end_id})
\* CALL apoc.merge.relationship(source, row.type, {...}, {}, target) for one
\* row: a row that matches no pair of nodes yields nothing
MergeRel(N, R, row) ==
    LET pairs == {<<a, b>> \in N \X N : a.id = Cell(row.start_id) /\ b.id = Cell(row.end_id)}
        Has(p) == \E r \in R : /\ r.start = Endpoint(p[1]) /\ r.end = Endpoint(p[2])
                               /\ r.type = Cell(row.type)
                               /\ r.props = IdentProps(row)
    IN  R \cup {NewRel(R, p, row) : p \in {q \in pairs : ~Has(q)}}

RECURSIVE LoadRelRows(_, _, _)
LoadRelRows(N, R, rows) ==
    IF rows = <<>> THEN R
    ELSE LoadRelRows(N, MergeRel(N, R, Head(rows)), Tail(rows))

(***************************************************************************)
(* run_loading (neo4j_loading.py:89-112)                                   *)
(***************************************************************************)
LoadFrame(l) == UNCHANGED <<coordVars, resVars, cliVars, fileVars, extractVars>>

\* the call returns; nodes_csv and rels_csv go out of scope with it
Return(l, value) ==
    /\ result' = [result EXCEPT ![l] = value]
    /\ staged' = [staged EXCEPT ![l] = NoFiles]
    /\ lpc' = [lpc EXCEPT ![l] = "idle"]
    /\ UNCHANGED escaped

\* a statement outside every try, or an exception that copy_to_docker's
\* except clause does not name, leaves run_loading: no value is returned
Escape(l) ==
    /\ escaped' = [escaped EXCEPT ![l] = TRUE]
    /\ staged' = [staged EXCEPT ![l] = NoFiles]
    /\ lpc' = [lpc EXCEPT ![l] = "idle"]
    /\ UNCHANGED result

\* neo4j_loading.py:94-99: the caller's batch is written to two CSV files
\* or to_csv raises (lines 98-99 stand outside every try)
RunLoading(l) ==
    /\ lpc[l] = "idle"
    /\ \E b \in Batches :
          /\ again' = [again EXCEPT ![l] = result[l] /\ import_dir = b]
          /\ \/ /\ staged' = [staged EXCEPT ![l] = b]
                /\ lpc' = [lpc EXCEPT ![l] = "copy_nodes"]
                /\ escaped' = [escaped EXCEPT ![l] = FALSE]
             \/ /\ staged' = [staged EXCEPT ![l] = NoFiles]
                /\ lpc' = [lpc EXCEPT ![l] = "idle"]
                /\ escaped' = [escaped EXCEPT ![l] = TRUE]
    /\ before' = [before EXCEPT ![l] = Store]
    /\ nodes_docker' = [nodes_docker EXCEPT ![l] = FALSE]
    /\ rels_docker' = [rels_docker EXCEPT ![l] = FALSE]
    /\ nodes_ok' = [nodes_ok EXCEPT ![l] = FALSE]
    /\ rels_ok' = [rels_ok EXCEPT ![l] = FALSE]
    /\ result' = [result EXCEPT ![l] = FALSE]
    /\ UNCHANGED <<nodes, rels, import_dir>>
    /\ LoadFrame(l)

\* neo4j_loading.py:105 with copy_to_docker (78-87): docker cp succeeds and
\* the name is returned, or exits non-zero (CalledProcessError) and None is
\* returned, or subprocess.run raises something else (the docker executable
\* is not found), which the except clause of line 85 does not catch
CopyNodes(l) ==
    /\ lpc[l] = "copy_nodes"
    /\ \/ /\ import_dir' = [import_dir EXCEPT !.nodes = staged[l].nodes]
          /\ nodes_docker' = [nodes_docker EXCEPT ![l] = TRUE]
          /\ lpc' = [lpc EXCEPT ![l] = "copy_rels"]
          /\ UNCHANGED <<staged, result, escaped>>
       \/ /\ UNCHANGED <<import_dir, nodes_docker>>
          /\ lpc' = [lpc EXCEPT ![l] = "copy_rels"]
          /\ UNCHANGED <<staged, result, escaped>>
       \/ /\ UNCHANGED <<import_dir, nodes_docker>>
          /\ Escape(l)
    /\ UNCHANGED <<nodes, rels, rels_docker, nodes_ok, rels_ok, before, again>>
    /\ LoadFrame(l)

\* the test of line 108 looking at the second copy only
CopyRelsTestsLast(l) ==
    /\ lpc[l] = "copy_rels"
    /\ \/ /\ \/ /\ import_dir' = [import_dir EXCEPT !.relations = staged[l].relations]
                   /\ rels_docker' = [rels_docker EXCEPT ![l] = TRUE]
                \/ UNCHANGED <<import_dir, rels_docker>>
          /\ IF rels_docker'[l]
                THEN /\ lpc' = [lpc EXCEPT ![l] = "load_nodes"]
                     /\ UNCHANGED <<result, staged, escaped>>
                ELSE Return(l, FALSE)
       \/ /\ UNCHANGED <<import_dir, rels_docker>>
          /\ Escape(l)
    /\ UNCHANGED <<nodes, rels, nodes_docker, nodes_ok, rels_ok, before, again>>
    /\ LoadFrame(l)

\* neo4j_loading.py:106 and the test of line 108
CopyRels(l) ==
    /\ lpc[l] = "copy_rels"
    /\ \/ /\ \/ /\ import_dir' = [import_dir EXCEPT !.relations = staged[l].relations]
                   /\ rels_docker' = [rels_docker EXCEPT ![l] = TRUE]
                \/ UNCHANGED <<import_dir, rels_docker>>
          /\ IF nodes_docker[l] /\ rels_docker'[l]
                THEN /\ lpc' = [lpc EXCEPT ![l] = "load_nodes"]
                     /\ UNCHANGED <<result, staged, escaped>>
                ELSE Return(l, FALSE)
       \/ /\ UNCHANGED <<import_dir, rels_docker>>
          /\ Escape(l)
    /\ UNCHANGED <<nodes, rels, nodes_docker, nodes_ok, rels_ok, before, again>>
    /\ LoadFrame(l)

\* the edge phase entered whatever the node phase returned
LoadNodesCsvThenAlways(l) ==
    /\ lpc[l] = "load_nodes"
    /\ \/ /\ nodes' = LoadNodeRows(nodes, import_dir.nodes)
          /\ nodes_ok' = [nodes_ok EXCEPT ![l] = TRUE]
       \/ UNCHANGED <<nodes, nodes_ok>>
    /\ lpc' = [lpc EXCEPT ![l] = "load_rels"]
    /\ UNCHANGED <<rels, import_dir, staged, nodes_docker, rels_docker, rels_ok, result, escaped, before, again>>
    /\ LoadFrame(l)

\* neo4j_loading.py:109, left operand, with load_nodes_csv (22-45): the
\* statement runs in one transaction over nodes_latest.csv and True is
\* returned, or the session raises, nothing is written and False is returned
LoadNodesCsv(l) ==
    /\ lpc[l] = "load_nodes"
    /\ \/ /\ nodes' = LoadNodeRows(nodes, import_dir.nodes)
          /\ nodes_ok' = [nodes_ok EXCEPT ![l] = TRUE]
          /\ lpc' = [lpc EXCEPT ![l] = "load_rels"]
          /\ UNCHANGED <<result, staged, escaped>>
       \/ /\ Return(l, FALSE)
          /\ UNCHANGED <<nodes, nodes_ok>>
    /\ UNCHANGED <<rels, import_dir, nodes_docker, rels_docker, rels_ok, before, again>>
    /\ LoadFrame(l)

\* an edge phase that takes the nodes of its run back when it fails
LoadRelationshipsCsvRollsBack(l) ==
    /\ lpc[l] = "load_rels"
    /\ \/ /\ rels' = LoadRelRows(nodes, rels, import_dir.relations)
          /\ rels_ok' = [rels_ok EXCEPT ![l] = TRUE]
          /\ Return(l, TRUE)
          /\ UNCHANGED nodes
       \/ /\ Return(l, FALSE)
          /\ nodes' = before[l].nodes
          /\ UNCHANGED <<rels, rels_ok>>
    /\ UNCHANGED <<import_dir, nodes_docker, rels_docker, nodes_ok, before, again>>
    /\ LoadFrame(l)

\* neo4j_loading.py:109-112, right operand, with load_relationships_csv
\* (47-76), over relations_latest.csv
LoadRelationshipsCsv(l) ==
    /\ lpc[l] = "load_rels"
    /\ \/ /\ rels' = LoadRelRows(nodes, rels, import_dir.relations)
          /\ rels_ok' = [rels_ok EXCEPT ![l] = TRUE]
          /\ Return(l, TRUE)
       \/ /\ Return(l, FALSE)
          /\ UNCHANGED <<rels, rels_ok>>
    /\ UNCHANGED <<nodes, import_dir, nodes_docker, rels_docker, nodes_ok, before, again>>
    /\ LoadFrame(l)

\* copy_to_docker (78-87) called by a loader of another thread or process
\* (run_loading of a second web worker, or of the command line coordinator)
\* for a batch of its own, while this load is between its copies and its
\* statements: the destination names are the same two
OtherBatch ==
    [nodes |-> <<[id |-> "id-tim", name |-> "Tim Cook", label |-> "Person",
                  source |-> "newsapi", article_id |-> "a1", published_at |-> "t1"]>>,
     relations |-> <<>>]

Overlaps == \E l \in Loads : lpc[l] \in {"copy_rels", "load_nodes", "load_rels"}

OtherCopiesNodes ==
    /\ Overlaps
    /\ import_dir' = [import_dir EXCEPT !.nodes = OtherBatch.nodes]
    /\ UNCHANGED <<nodes, rels, lpc, staged, nodes_docker, rels_docker, nodes_ok, rels_ok,
                   result, escaped, before, again>>
    /\ UNCHANGED <<coordVars, resVars, cliVars, fileVars, extractVars>>

OtherCopiesRels ==
    /\ Overlaps
    /\ import_dir' = [import_dir EXCEPT !.relations = OtherBatch.relations]
    /\ UNCHANGED <<nodes, rels, lpc, staged, nodes_docker, rels_docker, nodes_ok, rels_ok,
                   result, escaped, before, again>>
    /\ UNCHANGED <<coordVars, resVars, cliVars, fileVars, extractVars>>

NextLoad ==
    \/ \E l \in Loads : RunLoading(l)
    \/ \E l \in Loads : CopyNodes(l)
    \/ \E l \in Loads : CopyRels(l)
    \/ \E l \in Loads : LoadNodesCsv(l)
    \/ \E l \in Loads : LoadRelationshipsCsv(l)

(***************************************************************************)
(* Stage D: EntityResolutionService (entity_resolution.py)                 *)
(***************************************************************************)
LowerChar(c) ==
    IF \E i \in DOMAIN Uppers : Uppers[i] = c
       THEN Lowers[CHOOSE i \in DOMAIN Uppers : Uppers[i] = c]
       ELSE c

UpperChar(c) ==
    IF \E i \in DOMAIN Lowers : Lowers[i] = c
       THEN Uppers[CHOOSE i \in DOMAIN Lowers : Lowers[i] = c]
       ELSE c

\* str.lower(), str.upper(), str.replace(a, b) for one-character a and b
Lower(t) == IF t = <<>> THEN <<>> ELSE [i \in 1..Len(t) |-> LowerChar(t[i])]

Upper(t) == IF t = <<>> THEN <<>> ELSE [i \in 1..Len(t) |-> UpperChar(t[i])]

Replace(t, a, b) ==
    IF t = <<>> THEN <<>> ELSE [i \in 1..Len(t) |-> IF t[i] = a THEN b ELSE t[i]]

RECURSIVE LStrip(_)
LStrip(t) == IF t # <<>> /\ Head(t) = " " THEN LStrip(Tail(t)) ELSE t

RECURSIVE RStrip(_)
RStrip(t) ==
    IF t # <<>> /\ t[Len(t)] = " " THEN RStrip(SubSeq(t, 1, Len(t) - 1)) ELSE t

\* str.strip()
Strip(t) == RStrip(LStrip(t))

\* w in t
Contains(t, w) ==
    \E i \in 1..(Len(t) - Len(w) + 1) : SubSeq(t, i, i + Len(w) - 1) = w

\* bool(x) of a string or None
Truthy(x) == x # None /\ x # <<>>

\* str(uuid.uuid5(uuid.NAMESPACE_DNS, key)): a hash of the key alone, taken
\* to be free of collisions
Uuid5(key) == <<"uuid5", key>>

VALID_LABELS == {"Person", "Company", "Product", "Event", "Entity"}

CompanyWords ==
    {<<"i", "n", "c">>, <<"c", "o", "r", "p">>, <<"c", "o", "m", "p", "a", "n", "y">>,
     <<"b", "a", "n", "k">>, <<"f", "u", "n", "d">>}

PersonWords ==
    {<<"m", "r">>, <<"d", "r">>, <<"c", "e", "o">>,
     <<"p", "r", "e", "s", "i", "d", "e", "n", "t">>}

\* _heuristic_type (36-44)
HeuristicType(name) ==
    IF ~Truthy(name) THEN "Entity"
    ELSE IF \E w \in CompanyWords : Contains(Lower(name), w) THEN "Company"
    ELSE IF \E w \in PersonWords : Contains(Lower(name), w) THEN "Person"
    ELSE "Entity"

\* the completion's label returned as it came
InferTypeLlmAsGiven(name, answer) ==
    IF answer = LlmRaises THEN HeuristicType(name) ELSE answer

\* infer_type_llm (18-34), given what the chat completion does
InferTypeLlm(name, answer) ==
    IF answer = LlmRaises THEN HeuristicType(name)
    ELSE IF answer \in VALID_LABELS THEN answer
    ELSE "Entity"

\* the key used as typed, neither trimmed nor lower-cased
GetOrCreateEntityIdRaw(cache, name) ==
    LET key == name
        hit == {p \in cache : p[1] = key}
    IN  IF key = <<>> THEN [id |-> None, cache |-> cache]
        ELSE IF hit = {} THEN [id |-> Uuid5(key), cache |-> cache \cup {<<key, Uuid5(key)>>}]
        ELSE [id |-> (CHOOSE p \in hit : TRUE)[2], cache |-> cache]

\* get_or_create_entity_id (46-52): the id returned and the cache left
GetOrCreateEntityId(cache, name) ==
    LET key == Lower(Strip(name))
        hit == {p \in cache : p[1] = key}
    IN  IF key = <<>> THEN [id |-> None, cache |-> cache]
        ELSE IF hit = {} THEN [id |-> Uuid5(key), cache |-> cache \cup {<<key, Uuid5(key)>>}]
        ELSE [id |-> (CHOOSE p \in hit : TRUE)[2], cache |-> cache]

\* clean_extraction_row, lines 58-68, from entity i on
RECURSIVE CleanEntities(_, _, _, _)
CleanEntities(cache, row, answers, i) ==
    IF i > Len(row.entities) THEN [objs |-> <<>>, cache |-> cache]
    ELSE LET e_str == Strip(row.entities[i])
         IN  IF e_str = <<>> THEN CleanEntities(cache, row, answers, i + 1)
             ELSE LET g == GetOrCreateEntityId(cache, e_str)
                      rest == CleanEntities(g.cache, row, answers, i + 1)
                  IN  [objs |-> <<[id |-> g.id, name |-> e_str,
                                   label |-> InferTypeLlm(e_str, answers[i]),
                                   source |-> row.source, article_id |-> row.article_id,
                                   published_at |-> row.published_at]>> \o rest.objs,
                       cache |-> rest.cache]

\* the triple also skipped when its subject or object has no id
SkipsTripleStrict(r) ==
    \/ ~(Truthy(r.subject) /\ Truthy(r.object) /\ Truthy(r.relation))
    \/ Strip(r.subject) = <<>>
    \/ Strip(r.object) = <<>>

\* the phrase with its spaces replaced and its case kept
RelationTypeCaseKept(rel) == Replace(rel, " ", "_")

\* line 78: rel.upper().replace(" ", "_")
RelationType(rel) == Replace(Upper(rel), " ", "_")

\* line 73: if not all([subj, obj, rel]): continue
SkipsTriple(r) == ~(Truthy(r.subject) /\ Truthy(r.object) /\ Truthy(r.relation))

\* clean_extraction_row, lines 70-81, from triple i on
RECURSIVE CleanRelations(_, _, _)
CleanRelations(cache, row, i) ==
    IF i > Len(row.relations) THEN [objs |-> <<>>, cache |-> cache]
    ELSE LET r == row.relations[i]
         IN  IF SkipsTriple(r) THEN CleanRelations(cache, row, i + 1)
             ELSE LET s == GetOrCreateEntityId(cache, r.subject)
                      o == GetOrCreateEntityId(s.cache, r.object)
                      rest == CleanRelations(o.cache, row, i + 1)
                  IN  [objs |-> <<[start_id |-> s.id, end_id |-> o.id,
                                   type |-> RelationType(r.relation),
                                   confidence |-> "0.9", article_id |-> row.article_id,
                                   source |-> row.source,
                                   published_at |-> row.published_at]>> \o rest.objs,
                       cache |-> rest.cache]

\* the last row of each key kept (keep="last")
RECURSIVE DropDuplicatesKeepLast(_, _)
DropDuplicatesKeepLast(rows, keys) ==
    IF rows = <<>> THEN <<>>
    ELSE IF \E j \in 2..Len(keys) : keys[j] = Head(keys)
            THEN DropDuplicatesKeepLast(Tail(rows), Tail(keys))
            ELSE <<Head(rows)>> \o DropDuplicatesKeepLast(Tail(rows), Tail(keys))

RECURSIVE DropFrom(_, _, _)
DropFrom(rows, keys, seen) ==
    IF rows = <<>> THEN <<>>
    ELSE IF Head(keys) \in seen THEN DropFrom(Tail(rows), Tail(keys), seen)
    ELSE <<Head(rows)>> \o DropFrom(Tail(rows), Tail(keys), seen \cup {Head(keys)})

\* a drop_duplicates that looks for the subset's columns in a frame that
\* has none
DropDuplicatesKeyError(rows, keys) ==
    IF rows = <<>> THEN <<"KeyError">> ELSE DropFrom(rows, keys, {})

\* DataFrame.drop_duplicates(subset=...), keys[i] being row i's values in the
\* subset: the first row of each key is kept, in order
DropDuplicates(rows, keys) == DropFrom(rows, keys, {})

NodeKeys(rows) == [i \in DOMAIN rows |-> rows[i].id]

\* the type left out of the subset
RelKeysNoType(rows) == [i \in DOMAIN rows |-> <<rows[i].start_id, rows[i].end_id>>]

RelKeys(rows) ==
    [i \in DOMAIN rows |-> <<rows[i].start_id, rows[i].end_id, rows[i].type>>]

ResFrame == UNCHANGED <<coordVars, loadVars, cliVars, fileVars, extractVars>>

\* EntityResolutionService.__init__ (13-16)
NewResolver ==
    /\ rpc \in {"idle", "done"}
    /\ entity_cache # {}
    /\ entity_cache' = {}
    /\ UNCHANGED <<extracted, rpc, row_i, all_entities, all_relations, answered, resolved>>
    /\ ResFrame

\* run_resolution, lines 89-90
RunResolution ==
    /\ rpc \in {"idle", "done"}
    /\ extracted' \in Extractions
    /\ rpc' = "rows"
    /\ row_i' = 0
    /\ all_entities' = <<>>
    /\ all_relations' = <<>>
    /\ answered' = <<>>
    /\ resolved' = NoData
    /\ UNCHANGED entity_cache
    /\ ResFrame

\* run_resolution, lines 92-95, for one row, with clean_extraction_row (54-83)
CleanExtractionRow ==
    /\ rpc = "rows"
    /\ row_i < Len(extracted)
    /\ LET row == extracted[row_i + 1]
       IN  \E answers \in [DOMAIN row.entities -> LlmAnswers] :
              LET e == CleanEntities(entity_cache, row, answers, 1)
                  r == CleanRelations(e.cache, row, 1)
              IN  /\ all_entities' = all_entities \o e.objs
                  /\ all_relations' = all_relations \o r.objs
                  /\ entity_cache' = r.cache
                  /\ answered' = answers
    /\ row_i' = row_i + 1
    /\ UNCHANGED <<extracted, rpc, resolved>>
    /\ ResFrame

\* run_resolution, lines 98-102
ResolutionReturn ==
    /\ rpc = "rows"
    /\ row_i = Len(extracted)
    /\ resolved' = [nodes |-> DropDuplicates(all_entities, NodeKeys(all_entities)),
                    relations |-> DropDuplicates(all_relations, RelKeys(all_relations))]
    /\ rpc' = "done"
    /\ answered' = <<>>
    /\ UNCHANGED <<extracted, row_i, entity_cache, all_entities, all_relations>>
    /\ ResFrame

NextResolve ==
    \/ NewResolver
    \/ RunResolution
    \/ CleanExtractionRow
    \/ ResolutionReturn

(***************************************************************************)
(* run_complete_pipeline (knowledge_graph_pipeline.py:57-227)              *)
(***************************************************************************)
CliFrame == UNCHANGED <<coordVars, loadVars, resVars, fileVars, extractVars>>

\* a run resumed at a stage also enters the block of the stage before it
EnteredFromBefore(skip) ==
    CASE skip = NoSkip -> StageSet
      [] skip = "A" -> StageSet
      [] skip = "B" -> StageSet
      [] skip = "C" -> StageSet \ {"A"}
      [] skip = "D" -> StageSet \ {"A", "B"}
      [] skip = "E" -> {"D", "E", "F"}
      [] skip = "F" -> {"E", "F"}

\* the stages whose block is entered under skip_to_stage = skip: the tests
\* of lines 87, 109, 124, 139 and 154; the block of stage F has no test
Entered(skip) ==
    CASE skip = NoSkip -> StageSet
      [] skip = "A" -> StageSet
      [] skip = "B" -> StageSet \ {"A"}
      [] skip = "C" -> StageSet \ {"A", "B"}
      [] skip = "D" -> StageSet \ {"A", "B", "C"}
      [] skip = "E" -> {"E", "F"}
      [] skip = "F" -> {"F"}

Enters(s) == s \in Entered(cargs.skip_to_stage)

\* return, or an exception caught at lines 216-223
CliReturn(value) ==
    /\ cpc' = "returned"
    /\ cresult' = value

CliGoto(s) == cpc' = s /\ UNCHANGED cresult

Called(s) == clog' = Append(clog, s)

\* lines 57-81
RunCompletePipeline ==
    /\ cpc \in {"idle", "returned"}
    /\ cargs' \in CliArgs
    /\ cpc' = "A"
    /\ clocals' = NoLocals
    /\ clog' = <<>>
    /\ cresult' = FALSE
    /\ UNCHANGED disk
    /\ CliFrame

\* lines 87-104
CliIngest ==
    /\ cpc = "A"
    /\ IF ~Enters("A")
          THEN CliGoto("B") /\ UNCHANGED <<clocals, disk, clog>>
       ELSE IF cargs.run_ingestion
          THEN /\ Called("A")
               /\ \/ /\ CliGoto("B")
                     /\ clocals' = [clocals EXCEPT !.articles = "some"]
                     /\ disk' = [disk EXCEPT !.raw = TRUE]
                  \/ /\ CliGoto("B")
                     /\ clocals' = [clocals EXCEPT !.articles = "empty"]
                     /\ UNCHANGED disk
                  \/ CliReturn(FALSE) /\ UNCHANGED <<clocals, disk>>
          ELSE /\ Called("A")
               /\ CliGoto("B")
               /\ clocals' = [clocals EXCEPT !.articles = IF disk.raw THEN "some" ELSE "empty"]
               /\ UNCHANGED disk
    /\ UNCHANGED cargs
    /\ CliFrame

\* lines 109-119, with _load_existing_articles (245-265)
CliPreprocess ==
    /\ cpc = "B"
    /\ IF ~Enters("B")
          THEN CliGoto("C") /\ UNCHANGED <<clocals, disk, clog>>
          ELSE /\ Called("B")
               /\ \/ /\ CliGoto("C")
                     /\ clocals' = [clocals EXCEPT
                                       !.articles = IF @ = "None"
                                                       THEN (IF disk.raw THEN "some" ELSE "empty")
                                                       ELSE @,
                                       !.processed_path = TRUE]
                     /\ disk' = [disk EXCEPT !.processed = TRUE]
                  \/ CliReturn(FALSE) /\ UNCHANGED <<clocals, disk>>
    /\ UNCHANGED cargs
    /\ CliFrame

\* no preprocessed file taken for an empty input: the stage is run on nothing
CliExtractOnNothing ==
    /\ cpc = "C"
    /\ IF ~Enters("C")
          THEN CliGoto("D") /\ UNCHANGED <<clocals, disk, clog>>
          ELSE /\ Called("C")
               /\ \/ /\ CliGoto("D")
                     /\ clocals' = [clocals EXCEPT !.processed_path = TRUE,
                                                   !.extracted_path = TRUE]
                     /\ disk' = [disk EXCEPT !.extracted = TRUE]
                  \/ CliReturn(FALSE) /\ UNCHANGED <<clocals, disk>>
    /\ UNCHANGED cargs
    /\ CliFrame

\* lines 124-134, with _get_latest_processed_file (267-279)
CliExtract ==
    /\ cpc = "C"
    /\ IF ~Enters("C")
          THEN CliGoto("D") /\ UNCHANGED <<clocals, disk, clog>>
       ELSE IF ~clocals.processed_path /\ ~disk.processed
          THEN CliReturn(FALSE) /\ UNCHANGED <<clocals, disk, clog>>
          ELSE /\ Called("C")
               /\ \/ /\ CliGoto("D")
                     /\ clocals' = [clocals EXCEPT !.processed_path = TRUE,
                                                   !.extracted_path = TRUE]
                     /\ disk' = [disk EXCEPT !.extracted = TRUE]
                  \/ CliReturn(FALSE) /\ UNCHANGED <<clocals, disk>>
    /\ UNCHANGED cargs
    /\ CliFrame

\* lines 139-149, with _get_latest_extracted_file (281-293)
CliResolve ==
    /\ cpc = "D"
    /\ IF ~Enters("D")
          THEN CliGoto("E") /\ UNCHANGED <<clocals, clog>>
       ELSE IF ~clocals.extracted_path /\ ~disk.extracted
          THEN CliReturn(FALSE) /\ UNCHANGED <<clocals, clog>>
          ELSE /\ Called("D")
               /\ \/ /\ CliGoto("E")
                     /\ clocals' = [clocals EXCEPT !.extracted_path = TRUE,
                                                   !.neo4j_data = TRUE]
                  \/ CliReturn(FALSE) /\ UNCHANGED clocals
    /\ UNCHANGED <<cargs, disk>>
    /\ CliFrame

\* lines 154-170: without neo4j_data the run returns False; else run_loading
\* is called and returns True or False, or raises
CliLoad ==
    /\ cpc = "E"
    /\ IF ~Enters("E")
          THEN CliGoto("F") /\ UNCHANGED <<clocals, disk, clog>>
       ELSE IF ~clocals.neo4j_data
          THEN CliReturn(FALSE) /\ UNCHANGED <<clocals, disk, clog>>
          ELSE /\ Called("E")
               /\ \/ /\ \E ok \in {"True", "False"} :
                          clocals' = [clocals EXCEPT !.loading_success = ok]
                     /\ CliGoto("E_test")
                     /\ disk' = [disk EXCEPT !.neo4j_ready = TRUE]
                  \/ CliReturn(FALSE) /\ UNCHANGED <<clocals, disk>>
    /\ UNCHANGED cargs
    /\ CliFrame

\* a failed load passed over: stage F is entered all the same
CliLoadTestGoesOn ==
    /\ cpc = "E_test"
    /\ CliGoto("F")
    /\ UNCHANGED <<cargs, clocals, disk, clog>>
    /\ CliFrame

\* lines 172-177: if not loading_success: return False
CliLoadTest ==
    /\ cpc = "E_test"
    /\ IF clocals.loading_success = "False" THEN CliReturn(FALSE) ELSE CliGoto("F")
    /\ UNCHANGED <<cargs, clocals, disk, clog>>
    /\ CliFrame

\* lines 182-214: the query service is constructed and tried, or raises
CliServe ==
    /\ cpc = "F"
    /\ Called("F")
    /\ \/ CliReturn(TRUE)
       \/ CliReturn(FALSE)
    /\ UNCHANGED <<cargs, clocals, disk>>
    /\ CliFrame

NextCli ==
    \/ RunCompletePipeline
    \/ CliIngest
    \/ CliPreprocess
    \/ CliExtract
    \/ CliResolve
    \/ CliLoad
    \/ CliLoadTest
    \/ CliServe

(***************************************************************************)
(* _get_latest_processed_file and _get_latest_extracted_file               *)
(* (knowledge_graph_pipeline.py:267-293)                                   *)
(***************************************************************************)
\* glob("preprocessed_chunks_*.parquet")
MatchesProcessed(name) ==
    name[1] = "preprocessed_chunks_" /\ name[Len(name)] = ".parquet"

\* glob("*_extracted.parquet")
MatchesExtracted(name) ==
    /\ Len(name) >= 2
    /\ name[Len(name) - 1] = "_extracted"
    /\ name[Len(name)] = ".parquet"

\* the files of the least modification time
Oldest(files) == {f \in files : \A g \in files : f.mtime <= g.mtime}

\* max(files, key=lambda p: p.stat().st_mtime): a file of the greatest
\* modification time; among equals, the one glob happened to list first
Latest(files) == {f \in files : \A g \in files : g.mtime <= f.mtime}

FileFrame == UNCHANGED <<coordVars, loadVars, resVars, cliVars, extractVars>>

\* lines 267-279
GetLatestProcessedFile ==
    /\ asked' = "processed"
    /\ LET files == {f \in processed_dir.files : MatchesProcessed(f.name)}
       IN  IF ~processed_dir.exists \/ files = {}
              THEN latest' = FileNotFoundError
              ELSE \E f \in Latest(files) : latest' = f.name
    /\ UNCHANGED processed_dir
    /\ FileFrame

\* lines 281-293
GetLatestExtractedFile ==
    /\ asked' = "extracted"
    /\ LET files == {f \in processed_dir.files : MatchesExtracted(f.name)}
       IN  IF ~processed_dir.exists \/ files = {}
              THEN latest' = FileNotFoundError
              ELSE \E f \in Latest(files) : latest' = f.name
    /\ UNCHANGED processed_dir
    /\ FileFrame

NextFiles ==
    \/ GetLatestProcessedFile
    \/ GetLatestExtractedFile

(***************************************************************************)
(* extract_from_chunk, _parse_llm_response and run_extraction              *)
(* (entity_extraction.py:18-106)                                           *)
(***************************************************************************)
\* json.loads: an object with the two arrays, the empty object, a value
\* that is not an object, or a JSONDecodeError
JsonLoads(text) ==
    CASE text = <<"{", Members, "}">> ->
            [kind |-> "dict",
             value |-> [entities |-> <<"Apple", "CEO">>,
                        relations |-> <<"Apple has CEO Tim Cook">>]]
      [] text = <<"{", "}">> -> [kind |-> "dict", value |-> <<>>]
      [] text = <<"[]">> -> [kind |-> "list", value |-> <<>>]
      [] OTHER -> [kind |-> "JSONDecodeError", value |-> <<>>]

Decodes(text) == JsonLoads(text).kind # "JSONDecodeError"

EmptyLists == [kind |-> "dict", value |-> [entities |-> <<>>, relations |-> <<>>]]

Backticks(content) == {i \in DOMAIN content : content[i] \in {Fence, FenceEnd}}

Min(S) == CHOOSE i \in S : \A j \in S : i <= j

Max(S) == CHOOSE i \in S : \A j \in S : j <= i

\* re.search over content, re.DOTALL, for a fenced json block: the leftmost
\* opening fence that some backticks follow, up to the nearest of them
Fenced(content) ==
    LET opens == {i \in DOMAIN content :
                     content[i] = Fence /\ \E j \in Backticks(content) : j > i}
    IN  IF opens = {} THEN content
        ELSE LET i == Min(opens)
                 j == Min({k \in Backticks(content) : k > i})
             IN  SubSeq(content, i + 1, j - 1)

\* lines 59-74
ParseLlmResponse(content) ==
    LET text == Fenced(content)
        opening == {i \in DOMAIN text : text[i] = "{"}
        closing == {i \in DOMAIN text : text[i] = "}"}
    IN  IF Decodes(text) THEN JsonLoads(text)
        ELSE IF /\ opening # {} /\ closing # {} /\ Min(opening) < Max(closing)
                /\ Decodes(SubSeq(text, Min(opening), Max(closing)))
                THEN JsonLoads(SubSeq(text, Min(opening), Max(closing)))
                ELSE EmptyLists

\* dict.update
Update(d, e) == [k \in DOMAIN d \cup DOMAIN e |-> IF k \in DOMAIN e THEN e[k] ELSE d[k]]

\* lines 39-46
ErrorRecord(metadata) ==
    [chunk_id |-> metadata.chunk_id, article_id |-> metadata.article_id,
     error |-> <<"str(e)">>, entities |-> <<>>, relations |-> <<>>]

\* lines 18-46: the call raises, or the content is None and re.search
\* raises, or the parsed value is not a dict and update raises: all three
\* end in the except clause
ExtractFromChunkRecord(content, metadata) ==
    IF content \in {CreateRaises, NoContent} THEN ErrorRecord(metadata)
    ELSE IF ParseLlmResponse(content).kind # "dict" THEN ErrorRecord(metadata)
    ELSE Update(ParseLlmResponse(content).value,
                [chunk_id |-> metadata.chunk_id, article_id |-> metadata.article_id,
                 source |-> metadata.source, published_at |-> metadata.published_at,
                 title |-> metadata.title])

ExtractFrame == UNCHANGED <<coordVars, loadVars, resVars, cliVars, fileVars>>

\* line 94 with lines 18-46: one call of extract_from_chunk
ExtractFromChunk ==
    /\ ~output_path
    /\ chunk_result = NoResult
    /\ Len(results) < Len(sample_df)
    /\ reply' \in {CreateRaises, NoContent} \cup Contents
    /\ chunk_result' = ExtractFromChunkRecord(reply', sample_df[Len(results) + 1])
    /\ UNCHANGED <<sample_df, results, output_path>>
    /\ ExtractFrame

\* line 95, and the next turn of the loop of line 86
AppendResult ==
    /\ chunk_result # NoResult
    /\ results' = Append(results, chunk_result)
    /\ chunk_result' = NoResult
    /\ reply' = NoReply
    /\ UNCHANGED <<sample_df, output_path>>
    /\ ExtractFrame

\* lines 101-106
SaveResults ==
    /\ ~output_path
    /\ chunk_result = NoResult
    /\ Len(results) = Len(sample_df)
    /\ output_path' = TRUE
    /\ UNCHANGED <<sample_df, results, reply, chunk_result>>
    /\ ExtractFrame

NextExtract ==
    \/ ExtractFromChunk
    \/ AppendResult
    \/ SaveResults

Spec == Init /\ [][Next]_vars

\* the steps of one worker thread (threading.Thread, app.py:308-310) and
\* of one handler thread past the arrival of its request
WorkerStep(w) ==
    \/ WorkerSetRunning(w)
    \/ WorkerSetError(w)
    \/ WorkerSetCompleted(w)
    \/ \E s \in StageSet : StageUpdate(w, s)
    \/ \E s \in StageSet : StageWork(w, s)
    \/ \E s \in StageSet : StageStats(w, s)
    \/ StageStats2(w)
    \/ \E s \in StageSet : StageResult(w, s)
    \/ LoadWork(w)
    \/ ServeWork(w)
    \/ WorkerComplete(w)
    \/ WorkerExcept(w)

HandlerStep(h) == StartCheck(h) \/ StartReset(h) \/ StartSpawn(h)

\* the start requests and the runs they start, without the status polls
NextRun ==
    \/ \E h \in Handlers : StartReceive(h)
    \/ \E h \in Handlers : HandlerStep(h)
    \/ \E w \in Workers : WorkerStep(w)

\* while some thread can take a step one of them is scheduled, and every
\* call a stage makes returns or raises
SpecFair ==
    /\ Init
    /\ [][NextRun]_vars
    /\ WF_vars((\E w \in Workers : WorkerStep(w)) \/ (\E h \in Handlers : HandlerStep(h)))

\* the loader on its own, beside a coordinator that stays as it started
InitLoad == Init /\ query_service

SpecLoad == InitLoad /\ [][NextLoad]_vars

\* a load beside the copies of another load
NextLoadShared ==
    \/ \E l \in Loads : RunLoading(l)
    \/ \E l \in Loads : CopyNodes(l)
    \/ \E l \in Loads : CopyRels(l)
    \/ \E l \in Loads : LoadNodesCsv(l)
    \/ \E l \in Loads : LoadRelationshipsCsv(l)
    \/ OtherCopiesNodes
    \/ OtherCopiesRels

SpecLoadShared == InitLoad /\ [][NextLoadShared]_vars

\* the resolver on its own
SpecResolve == InitLoad /\ [][NextResolve]_vars

\* the command-line coordinator on its own
SpecCli == InitLoad /\ [][NextCli]_vars

\* the two look-ups of the latest artifact, over any processed directory
InitAnyDirectory ==
    /\ InitCoordinator /\ query_service
    /\ InitLoader /\ InitResolver /\ InitCli /\ InitExtractor
    /\ processed_dir \in Directories
    /\ asked = "none"
    /\ latest = NotCalled

SpecFiles == InitAnyDirectory /\ [][NextFiles]_vars

\* an extraction over any sample of chunks
InitAnySample ==
    /\ InitCoordinator /\ query_service
    /\ InitLoader /\ InitResolver /\ InitCli /\ InitFiles
    /\ sample_df \in SeqsUpTo(ChunkRows, MaxChunks)
    /\ results = <<>>
    /\ reply = NoReply
    /\ chunk_result = NoResult
    /\ output_path = FALSE

SpecExtract == InitAnySample /\ [][NextExtract]_vars

\* the two coordinators are two programs: a behaviour is one of the web
\* application or one of the command line
WebNeverRan == runs = 0 /\ response = NoResponse

CliNeverRan == cpc = "idle"

NextBoth ==
    \/ \E h \in Handlers : CliNeverRan /\ StartReceive(h)
    \/ \E h \in Handlers : CliNeverRan /\ StartCheck(h)
    \/ \E h \in Handlers : CliNeverRan /\ StartReset(h)
    \/ \E h \in Handlers : CliNeverRan /\ StartSpawn(h)
    \/ CliNeverRan /\ GetPipelineStatus
    \/ \E w \in Workers : CliNeverRan /\ WorkerSetRunning(w)
    \/ \E w \in Workers : CliNeverRan /\ WorkerSetError(w)
    \/ \E w \in Workers : CliNeverRan /\ WorkerSetCompleted(w)
    \/ \E w \in Workers, s \in StageSet : CliNeverRan /\ StageUpdate(w, s)
    \/ \E w \in Workers, s \in StageSet : CliNeverRan /\ StageWork(w, s)
    \/ \E w \in Workers, s \in StageSet : CliNeverRan /\ StageStats(w, s)
    \/ \E w \in Workers : CliNeverRan /\ StageStats2(w)
    \/ \E w \in Workers, s \in StageSet : CliNeverRan /\ StageResult(w, s)
    \/ \E w \in Workers : CliNeverRan /\ LoadWork(w)
    \/ \E w \in Workers : CliNeverRan /\ ServeWork(w)
    \/ \E w \in Workers : CliNeverRan /\ WorkerComplete(w)
    \/ \E w \in Workers : CliNeverRan /\ WorkerExcept(w)
    \/ WebNeverRan /\ RunCompletePipeline
    \/ WebNeverRan /\ CliIngest
    \/ WebNeverRan /\ CliPreprocess
    \/ WebNeverRan /\ CliExtract
    \/ WebNeverRan /\ CliResolve
    \/ WebNeverRan /\ CliLoad
    \/ WebNeverRan /\ CliLoadTest
    \/ WebNeverRan /\ CliServe

SpecBoth == Init /\ [][NextBoth]_vars

\* the loader on its own, or the command line coordinator on its own
LoaderNeverRan == InitLoader

NextLoadOrCli ==
    \/ \E l \in Loads : CliNeverRan /\ RunLoading(l)
    \/ \E l \in Loads : CliNeverRan /\ CopyNodes(l)
    \/ \E l \in Loads : CliNeverRan /\ CopyRels(l)
    \/ \E l \in Loads : CliNeverRan /\ LoadNodesCsv(l)
    \/ \E l \in Loads : CliNeverRan /\ LoadRelationshipsCsv(l)
    \/ LoaderNeverRan /\ RunCompletePipeline
    \/ LoaderNeverRan /\ CliIngest
    \/ LoaderNeverRan /\ CliPreprocess
    \/ LoaderNeverRan /\ CliExtract
    \/ LoaderNeverRan /\ CliResolve
    \/ LoaderNeverRan /\ CliLoad
    \/ LoaderNeverRan /\ CliLoadTest
    \/ LoaderNeverRan /\ CliServe

SpecLoadOrCli == InitLoad /\ [][NextLoadOrCli]_vars

(***************************************************************************)
(* Single-flight                                                           *)
(***************************************************************************)
Executing == {w \in Workers : Active(w)}

\* C1: at most one pipeline worker is executing at any time, whatever the
\* interleaving of start requests with each other and with worker steps.
SingleFlight == Cardinality(Executing) <= 1

\* the step in which handler h performs the single-flight test
Tests(h) == hpc[h] = "check" /\ hpc'[h] # "check"

\* C2: a start request tested while running=true is answered "already
\* running", spawns no worker, is not kept pending and leaves the status
\* record as it was.
RejectedWhileRunning ==
    [][\A h \in Handlers :
          (Tests(h) /\ pipeline_status.running) =>
             /\ response' = AlreadyRunning
             /\ hpc'[h] = "idle"
             /\ hreq'[h] = NoRequest
             /\ wpc' = wpc
             /\ pipeline_status' = pipeline_status]_vars

RejectedWhileRunningWitness ==
    /\ response = AlreadyRunning
    /\ pipeline_status.running
    /\ Executing # {}
    /\ pipeline_status.current_stage \in StageSet

(***************************************************************************)
(* Failure policy                                                          *)
(***************************************************************************)
Handling(w) == wpc[w] = PC("except", "")

\* the step in which worker w runs its except clause
Handles(w) == Handling(w) /\ wpc'[w] # wpc[w]

\* the step in which a stage of worker w raises
Raises(w) == Active(w) /\ werr[w] = NoError /\ werr'[w] # NoError

\* C5: when a stage raises, the worker goes straight to its except clause
\* and ends there, running no later stage; the record then has
\* running=false, completed=false, the error and the failure message.
FailureAborts ==
    [][\A w \in Workers :
          /\ Raises(w) => Handling(w)'
          /\ (Handling(w) /\ ~Handles(w)) => UNCHANGED <<wpc[w], werr[w]>>
          /\ Handles(w) =>
                /\ wpc'[w] = Done
                /\ pipeline_status'.running = FALSE
                /\ pipeline_status'.completed = FALSE
                /\ pipeline_status'.error = werr[w]
                /\ pipeline_status'.error # NoError
                /\ pipeline_status'.message = FailMessage(werr[w])]_vars

FailureAbortsWitness ==
    \E w \in Workers :
       /\ wpc[w] = Done
       /\ pipeline_status.error = StageError("C")
       /\ pipeline_status.message = FailMessage(StageError("C"))
       /\ ~pipeline_status.running
       /\ ~pipeline_status.completed
       /\ pipeline_status.current_stage = "C"

Polled == response[1] = "status"

\* C7: while a worker is executing the work of stage X, a poll returns
\* stage X.
PollShowsWorkingStage ==
    \A w \in Workers, s \in StageSet :
       (Polled /\ wpc[w] = PC("work", s)) => response[3].current_stage = s

\* the values the record takes in a run that nothing overlaps: the stage,
\* its name and checkpoint, a message of that stage, and the flags of the
\* transition that wrote them
StageMessages(s) ==
    {StageMessage(s, z) : z \in SampleSizes}
       \cup (IF s \in {"A", "B", "C", "D"}
                THEN {ResultMessage(s, n, m) : n \in Counts, m \in Counts \cup {0}}
                ELSE {})

OfStage(r) ==
    /\ r.current_stage \in StageSet
    /\ r.stage_name = StageName(r.current_stage)
    /\ r.progress = Checkpoint(r.current_stage)

OfOneTransition(r) ==
    \/ [r EXCEPT !.stats = ZeroStats] = InitialStatus
    \/ [r EXCEPT !.stats = ZeroStats] = ResetStatus
    \/ /\ OfStage(r)
       /\ r.message \in StageMessages(r.current_stage)
       /\ r.running /\ ~r.completed /\ r.error = NoError
    \/ /\ OfStage(r)
       /\ r.error # NoError
       /\ r.message = FailMessage(r.error)
       /\ ~r.running /\ ~r.completed
    \/ /\ r.current_stage = "Complete" /\ r.stage_name = "Complete"
       /\ r.progress = 100
       /\ r.message = Msg("Pipeline completed successfully!", <<>>)
       /\ ~r.running /\ r.completed /\ r.error = NoError

\* C8: every snapshot returned to an observer is the record of a single
\* transition: its stage, progress, message, running, completed and error
\* belong together.
SnapshotOfOneTransition == Polled => OfOneTransition(response[3])

(***************************************************************************)
(* The loader                                                              *)
(***************************************************************************)
AllWentThrough(l) == nodes_docker[l] /\ rels_docker[l] /\ nodes_ok[l] /\ rels_ok[l]

\* C3: a load that repeats the batch of the successful load just before it
\* leaves the store with the same nodes and relationships, and reports
\* success whenever its transfers and both bulk statements went through.
ReloadIdempotent ==
    \A l \in Loads :
       (lpc[l] = "idle" /\ again[l]) =>
          /\ Store = before[l]
          /\ AllWentThrough(l) => result[l]

ReloadIdempotentWitness ==
    \E l \in Loads :
       /\ lpc[l] = "idle" /\ again[l] /\ result[l]
       /\ Cardinality(nodes) = 2
       /\ Cardinality(rels) = 1
       /\ Store = before[l]

StoredKey(r) == <<r.start[1], r.end[1], r.type>>

\* C4: the store holds at most one relationship per (start_id, end_id, type).
OneEdgePerKey ==
    \A r, q \in rels : StoredKey(r) = StoredKey(q) => r = q

\* C9: the edge statement is run only after the node statement of the same
\* load returned True; a load whose node statement failed returns False
\* with the relationships untouched.
NodesBeforeEdges ==
    \A l \in Loads :
       /\ lpc[l] = "load_rels" => nodes_ok[l]
       /\ rels_ok[l] => nodes_ok[l]
       /\ (lpc[l] = "idle" /\ ~nodes_ok[l]) => (~result[l] /\ rels = before[l].rels)

NodesBeforeEdgesWitness ==
    \E l \in Loads :
       /\ lpc[l] = "idle"
       /\ nodes_docker[l] /\ rels_docker[l] /\ ~nodes_ok[l]
       /\ ~result[l]
       /\ import_dir.relations # <<>>

\* C10: a load that reports success has stored every edge of its batch: an
\* edge whose endpoint matches no node is not dropped under a True result.
NoEdgeDroppedOnSuccess ==
    \A l \in Loads :
       (lpc[l] = "idle" /\ result[l]) =>
          \A i \in DOMAIN import_dir.relations :
             \E r \in rels : StoredKey(r) = EdgeKey(import_dir.relations[i])

\* C11: no exception leaves run_loading: a failure while writing the staged
\* CSV files, while copying them to the import directory or in either bulk
\* statement ends the call with the return value False.
NeverRaises == \A l \in Loads : ~escaped[l]

\* the node statement of load l goes through in this step
NodesLoaded(l) == lpc[l] = "load_nodes" /\ nodes_ok'[l]

Carries(n, row) ==
    /\ n.id = Cell(row.id)
    /\ n.name = Cell(row.name)
    /\ n.label = Cell(row.label)
    /\ n.source = Cell(row.source)
    /\ n.article_id = Cell(row.article_id)
    /\ n.published_at = Cell(row.published_at)

\* C18: the store never holds two nodes with one id; a node statement that
\* goes through leaves, for every id of its batch, the node carrying the
\* batch's name, type, source, article_id and published_at, and leaves the
\* nodes of other ids as they were; no other step changes a node.
LastLoadWins ==
    /\ [](\A n, m \in nodes : n.id = m.id => n = m)
    /\ [][\A l \in Loads :
            IF NodesLoaded(l)
               THEN /\ \A i \in DOMAIN import_dir.nodes :
                          \E n \in nodes' : Carries(n, import_dir.nodes[i])
                    /\ \A n \in nodes' :
                          (\A i \in DOMAIN import_dir.nodes : n.id # Cell(import_dir.nodes[i].id))
                             => n \in nodes
               ELSE nodes' = nodes]_vars

\* id-apple was loaded as the Company "Apple" and then as the Entity "apple"
LastLoadWinsWitness ==
    \E n \in nodes :
       /\ n.id = "id-apple" /\ n.name = "apple" /\ n.label = "Entity"
       /\ n.source = "fmp" /\ n.article_id = "a2" /\ n.published_at = "t2"
       /\ "Company" \in n.labels
       /\ \A l \in Loads : lpc[l] = "idle" /\ result[l]

(***************************************************************************)
(* The resolver                                                            *)
(***************************************************************************)
RawNames == {Apple, AppleSp, AppleLow, AppleInc, TimCook, Blank, <<>>}

\* C13: the id of a name is that of its trimmed, lower-cased form alone:
\* names with one normal form get one id, whatever the cache holds and
\* whether the call is made on this resolver or on a new one, and every
\* entity emitted carries that id.
IdOfNormalFormOnly ==
    /\ \A n, m \in RawNames :
          Lower(Strip(n)) = Lower(Strip(m)) =>
             GetOrCreateEntityId(entity_cache, n).id = GetOrCreateEntityId({}, m).id
    /\ \A n \in RawNames :
          GetOrCreateEntityId(GetOrCreateEntityId(entity_cache, n).cache, n).id
             = GetOrCreateEntityId(entity_cache, n).id
    /\ \A i \in DOMAIN all_entities :
          all_entities[i].id = GetOrCreateEntityId({}, all_entities[i].name).id

\* " Apple " and "apple" were both resolved, on a cache that already held
\* another key
IdOfNormalFormOnlyWitness ==
    /\ \E i, j \in DOMAIN all_entities :
          /\ all_entities[i].name = Apple
          /\ all_entities[j].name = AppleLow
          /\ all_entities[i].id = all_entities[j].id
          /\ all_entities[i].id = Uuid5(AppleLow)
    /\ Cardinality(entity_cache) = 2
    /\ row_i = 2

\* C14: no node and no edge returned by run_resolution carries the id None.
NoNullId ==
    /\ \A i \in DOMAIN resolved.nodes : resolved.nodes[i].id # None
    /\ \A i \in DOMAIN resolved.relations :
          /\ resolved.relations[i].start_id # None
          /\ resolved.relations[i].end_id # None

FirstOf(rows, keys, i) == \A j \in 1..(i - 1) : keys[j] # keys[i]

\* C15: the nodes returned hold one record per id of all_entities, and it is
\* the first record of that id in input order, with its name, type, source,
\* article_id and published_at.
FirstWriteWins ==
    rpc = "done" =>
       LET out == resolved.nodes
           ids == [k \in DOMAIN all_entities |-> all_entities[k].id]
       IN  /\ \A i, j \in DOMAIN out : out[i].id = out[j].id => i = j
           /\ \A i \in DOMAIN out :
                 \E k \in DOMAIN all_entities :
                    out[i] = all_entities[k] /\ FirstOf(all_entities, ids, k)
           /\ \A k \in DOMAIN all_entities :
                 \E i \in DOMAIN out : out[i].id = all_entities[k].id

\* "Apple" of article a1 came before "apple" of article a2
FirstWriteWinsWitness ==
    /\ rpc = "done"
    /\ Len(all_entities) = 3
    /\ all_entities[1].name = Apple /\ all_entities[3].name = AppleLow
    /\ all_entities[1].label # all_entities[3].label
    /\ Len(resolved.nodes) = 2
    /\ resolved.nodes[1].name = Apple /\ resolved.nodes[1].article_id = "a1"

TripleKey(r) == <<r.start_id, r.end_id, r.type>>

\* C16: the edges returned are as many as the distinct (start_id, end_id,
\* type) keys of the normalized triples, one per key, each the first
\* occurrence of its key.
EdgePerDistinctKey ==
    rpc = "done" =>
       LET out == resolved.relations
           keys == [k \in DOMAIN all_relations |-> TripleKey(all_relations[k])]
       IN  /\ Len(out) = Cardinality({keys[k] : k \in DOMAIN keys})
           /\ \A i, j \in DOMAIN out : TripleKey(out[i]) = TripleKey(out[j]) => i = j
           /\ \A i \in DOMAIN out :
                 \E k \in DOMAIN all_relations :
                    out[i] = all_relations[k] /\ FirstOf(all_relations, keys, k)

\* three triples, two keys: "has CEO" twice and "employs" between the same
\* endpoints
EdgePerDistinctKeyWitness ==
    /\ rpc = "done"
    /\ Len(all_relations) = 3
    /\ Len(resolved.relations) = 2
    /\ resolved.relations[1].type = <<"H", "A", "S", "_", "C", "E", "O">>
    /\ resolved.relations[1].article_id = "a1"
    /\ resolved.relations[2].type = <<"E", "M", "P", "L", "O", "Y", "S">>
    /\ resolved.relations[1].start_id = resolved.relations[2].start_id
    /\ resolved.relations[1].end_id = resolved.relations[2].end_id

\* C17: both endpoints of every edge returned are ids of nodes returned.
EndpointsAreNodes ==
    rpc = "done" =>
       \A i \in DOMAIN resolved.relations :
          /\ \E k \in DOMAIN resolved.nodes :
                resolved.nodes[k].id = resolved.relations[i].start_id
          /\ \E k \in DOMAIN resolved.nodes :
                resolved.nodes[k].id = resolved.relations[i].end_id

(***************************************************************************)
(* The coordinators and the Load stage                                     *)
(***************************************************************************)
Count(seq, x) == Cardinality({i \in DOMAIN seq : seq[i] = x})

\* the step in which the loader's failure surfaces in worker w
LoadFails(w) == wpc[w] = PC("work", "E") /\ werr'[w] # NoError

\* the step in which the command-line run tests a False loading_success
CliLoadFails ==
    cpc = "E_test" /\ clocals.loading_success = "False" /\ cpc' # cpc

\* C12: a failed load aborts the run.  Web worker: the failure takes the
\* worker to its except clause and from there to its end, so stage F and
\* Complete are not reached, and the Load work is entered from the stage E
\* update alone, once.  Command line: the run returns False with run_loading
\* called once and stage F not called.
LoadFailureAborts ==
    [][/\ \A w \in Workers :
             /\ LoadFails(w) => wpc'[w] = PC("except", "")
             /\ (wpc[w] = PC("except", "") /\ wpc'[w] # wpc[w]) =>
                   (wpc'[w] = Done /\ ~pipeline_status'.completed)
             /\ (wpc'[w] = PC("work", "E") /\ wpc[w] # wpc'[w]) =>
                   wpc[w] = PC("update", "E")
       /\ CliLoadFails =>
             /\ cpc' = "returned"
             /\ cresult' = FALSE
             /\ Count(clog', "E") = 1
             /\ Count(clog', "F") = 0
       /\ (cpc' = "E_test" /\ cpc # "E_test") =>
             (cpc = "E" /\ Count(clog, "E") = 0)]_vars

LoadFailureAbortsWitness ==
    /\ cpc = "returned"
    /\ clocals.loading_success = "False"
    /\ ~cresult
    /\ clog = <<"A", "B", "C", "D", "E">>

\* C19: a run started at stage E, when an earlier run left a resolved batch
\* behind, calls the loader with it.
ResumeAtLoadLoads ==
    (cpc = "returned" /\ cargs.skip_to_stage = "E" /\ disk.neo4j_ready) =>
       Count(clog, "E") = 1

\* the stages a run is to execute, in order
Planned(skip) ==
    IF skip = NoSkip THEN StageIds
    ELSE SubSeq(StageIds, CHOOSE i \in DOMAIN StageIds : StageIds[i] = skip, Len(StageIds))

IsPrefix(a, b) == Len(a) <= Len(b) /\ SubSeq(b, 1, Len(a)) = a

StageOf(pc) == pc[2]

RelPhrases == {HasCeo, HasCeoUp, Employs, <<" ", "h", "a", "s", "_", "C", "e", "o", " ">>}

Normalized(t) ==
    \A i \in DOMAIN t : t[i] # " " /\ t[i] \notin {Lowers[k] : k \in DOMAIN Lowers}

\* C30: a relation type has no space and no lower-case letter; phrases that
\* differ in letter case alone get one type; the type of a type is itself;
\* "HAS CEO" gives "HAS_CEO"; and every relation emitted carries such a type.
TypeIsNormalForm ==
    /\ \A p \in RelPhrases :
          /\ Normalized(RelationType(p))
          /\ RelationType(RelationType(p)) = RelationType(p)
          /\ \A q \in RelPhrases : Lower(p) = Lower(q) => RelationType(p) = RelationType(q)
    /\ RelationType(HasCeoUp) = <<"H", "A", "S", "_", "C", "E", "O">>
    /\ \A i \in DOMAIN all_relations :
          /\ Normalized(all_relations[i].type)
          /\ RelationType(all_relations[i].type) = all_relations[i].type

\* "has CEO" and "HAS CEO" were both normalized, to one type
TypeIsNormalFormWitness ==
    /\ rpc = "done"
    /\ Len(all_relations) >= 2
    /\ Len(extracted) >= 2
    /\ extracted[1].relations # <<>> /\ extracted[2].relations # <<>>
    /\ extracted[1].relations[1].relation = HasCeo
    /\ extracted[2].relations[1].relation = HasCeoUp
    /\ all_relations[1].type = all_relations[2].type
    /\ all_relations[1].type = <<"H", "A", "S", "_", "C", "E", "O">>

(***************************************************************************)
(* Classification                                                          *)
(***************************************************************************)
\* the row just cleaned, and the entity object made from its i-th mention
LastRow == extracted[row_i]

Kept(i) == Strip(LastRow.entities[i]) # <<>>

Rank(i) == Cardinality({j \in 1..i : Kept(j)})

EntityOf(i) ==
    all_entities[Len(all_entities) - Rank(Len(LastRow.entities)) + Rank(i)]

Cleaned == rpc = "rows" /\ row_i >= 1

\* C27: infer_type_llm gives one of the five labels whatever the completion
\* is, a label, anything else or an exception; every entity emitted carries
\* one of them, and a row is cleaned to its end whatever the completions of
\* its mentions were.
AlwaysALabel ==
    /\ [](/\ \A n \in RawNames, a \in LlmAnswers : InferTypeLlm(n, a) \in VALID_LABELS
          /\ \A i \in DOMAIN all_entities : all_entities[i].label \in VALID_LABELS)
    /\ [][(rpc = "rows" /\ row_i < Len(extracted)) =>
             /\ rpc' = "rows"
             /\ row_i' = row_i + 1
             /\ Len(all_entities') =
                   Len(all_entities)
                   + Cardinality({i \in DOMAIN extracted[row_i + 1].entities :
                                     Strip(extracted[row_i + 1].entities[i]) # <<>>})]_vars

\* one mention got a label outside the set, the other an exception
AlwaysALabelWitness ==
    /\ Cleaned
    /\ Len(answered) = 2
    /\ answered[1] = "Organization" /\ answered[2] = LlmRaises
    /\ Kept(1) /\ Kept(2)
    /\ EntityOf(1).label = "Entity" /\ EntityOf(2).label = "Entity"
    /\ EntityOf(2).name = TimCook

\* C28: a label outside the allowed set gives the type the heuristic gives
\* for the name, as an exception of the call does.
InvalidLabelFallsBack ==
    Cleaned =>
       \A i \in DOMAIN LastRow.entities :
          (Kept(i) /\ answered[i] \notin VALID_LABELS \cup {LlmRaises}) =>
             EntityOf(i).label = HeuristicType(EntityOf(i).name)

\* C29: typed by the heuristic, "Apple" is a Company and "Tim Cook" a Person.
HeuristicExample ==
    Cleaned =>
       \A i \in DOMAIN LastRow.entities :
          (Kept(i) /\ answered[i] = LlmRaises) =>
             /\ EntityOf(i).name = Apple => EntityOf(i).label = "Company"
             /\ EntityOf(i).name = TimCook => EntityOf(i).label = "Person"

(***************************************************************************)
(* Resuming                                                                *)
(***************************************************************************)
\* C22: a run resumed at C with no file of the preprocessed pattern, or at D
\* with no file of the extracted pattern, calls no stage service, neither
\* its own nor a later one, hence loads nothing, and returns False.
WithoutArtifactFails ==
    /\ (cpc # "idle" /\ cargs.skip_to_stage = "C" /\ ~disk.processed) =>
          /\ cpc \in {"A", "B", "C", "returned"}
          /\ clog = <<>>
          /\ ~cresult
    /\ (cpc # "idle" /\ cargs.skip_to_stage = "D" /\ ~disk.extracted) =>
          /\ cpc \in {"A", "B", "C", "D", "returned"}
          /\ clog = <<>>
          /\ ~cresult

\* resumed at D with preprocessed chunks but nothing extracted
WithoutArtifactFailsWitness ==
    /\ cpc = "returned"
    /\ cargs.skip_to_stage = "D"
    /\ disk.processed /\ ~disk.extracted
    /\ clog = <<>>
    /\ ~cresult

\* the run does not ingest: it resumes at B, or enters A with
\* run_ingestion = False
SkipsIngestion ==
    \/ cargs.skip_to_stage = "B"
    \/ cargs.skip_to_stage \in {NoSkip, "A"} /\ ~cargs.run_ingestion

\* C23: a run that does not ingest, with no raw articles on disk, does not
\* go on to preprocess an empty list of articles.
WithoutRawFails ==
    (cpc # "idle" /\ SkipsIngestion /\ ~disk.raw) => Count(clog, "B") = 0

(***************************************************************************)
(* The latest artifact                                                     *)
(***************************************************************************)
IsLatestOf(name, Matches(_)) ==
    \E f \in processed_dir.files :
       /\ f.name = name
       /\ Matches(name)
       /\ \A g \in processed_dir.files : Matches(g.name) => g.mtime <= f.mtime

\* C21: the file a look-up returns matches the look-up's pattern and no
\* file matching that pattern has a greater modification time; the look-up
\* raises only when no file matches.
LatestByMtime ==
    /\ asked = "processed" =>
          IF latest = FileNotFoundError
             THEN \A g \in processed_dir.files : ~MatchesProcessed(g.name)
             ELSE IsLatestOf(latest, MatchesProcessed)
    /\ asked = "extracted" =>
          IF latest = FileNotFoundError
             THEN \A g \in processed_dir.files : ~MatchesExtracted(g.name)
             ELSE IsLatestOf(latest, MatchesExtracted)

\* the later of two extracted files is found, a newer file of another
\* pattern being passed over
LatestByMtimeWitness ==
    /\ asked = "extracted"
    /\ latest = ChunksExtracted("t1")
    /\ [name |-> ChunksExtracted("t1"), mtime |-> 2] \in processed_dir.files
    /\ [name |-> ChunksExtracted("t2"), mtime |-> 1] \in processed_dir.files
    /\ [name |-> Chunks("t2"), mtime |-> 3] \in processed_dir.files

(***************************************************************************)
(* Completion and the query service                                        *)
(***************************************************************************)
\* C26: a run is recorded as completed only if the query service was
\* initialised; the service is never torn down, so a completed record
\* beside an uninitialised service is a run whose Serve stage failed.
CompleteOnlyIfServed ==
    (pipeline_status.completed /\ pipeline_status.progress = 100) => query_service

(***************************************************************************)
(* Failure and what was written before it                                  *)
(***************************************************************************)
\* a load that has ended without success
LoadEndedInFailure(l) == lpc[l] = "idle" /\ (escaped[l] \/ ~result[l])

\* C24: a load that ends in failure leaves in the store what its phases
\* had written (the nodes of a node phase that went through remain, the
\* rest is as before the load), the step that ends it writes nothing to
\* the store, and no step of the command line coordinator, a failing one
\* included, removes an artifact an earlier stage persisted.
FailureKeepsWhatWasWritten ==
    /\ [](\A l \in Loads : LoadEndedInFailure(l) =>
             /\ rels = before[l].rels
             /\ nodes = IF nodes_ok[l]
                            THEN LoadNodeRows(before[l].nodes, import_dir.nodes)
                            ELSE before[l].nodes)
    /\ [][/\ \A l \in Loads :
               (lpc[l] # "idle" /\ LoadEndedInFailure(l)') => UNCHANGED <<nodes, rels>>
          /\ \A k \in DOMAIN disk : disk[k] => disk'[k]
          /\ (cpc' = "returned" /\ cresult' = FALSE) => UNCHANGED disk]_vars

\* a failed edge phase after a node phase that added nodes: they remain
FailureKeepsWhatWasWrittenWitness ==
    \E l \in Loads :
       /\ LoadEndedInFailure(l)
       /\ nodes_ok[l]
       /\ ~rels_ok[l]
       /\ nodes # before[l].nodes
       /\ nodes = LoadNodeRows(before[l].nodes, import_dir.nodes)

(***************************************************************************)
(* Termination of a run                                                    *)
(***************************************************************************)
\* the step with which worker w ends
Ends(w) == Active(w) /\ ~Active(w)'

\* a run is going on, or the record says so
Busy == pipeline_status.running \/ \E w \in Workers : Active(w)

\* C25: whenever a worker is executing or the record says running, a
\* state follows in which no worker is executing and the record says
\* running=false (so that the test of a later start request lets it
\* through); and each worker ends either with the Complete update
\* (completed true) or with the except update (error set, completed
\* false), and either way with running false.
RunsTerminate ==
    /\ Busy ~> ~Busy
    /\ [][\A w \in Workers : Ends(w) =>
             /\ ~pipeline_status'.running
             /\ IF wpc[w] = PC("complete", "")
                   THEN pipeline_status'.completed
                   ELSE /\ wpc[w] = PC("except", "")
                        /\ pipeline_status'.error # NoError
                        /\ ~pipeline_status'.completed]_vars

\* every request was received, every run started has ended, the last of
\* them in failure, and the record no longer says running
RunsTerminateWitness ==
    /\ runs = MaxRuns
    /\ \A h \in Handlers : hpc[h] = "idle"
    /\ \A w \in Workers : wpc[w] = Done
    /\ ~pipeline_status.running
    /\ pipeline_status.error # NoError
    /\ ~pipeline_status.completed

(***************************************************************************)
(* A single stage on its own                                               *)
(***************************************************************************)
\* C31: a run asked for one stage (the only argument that names a stage is
\* skip_to_stage) and ending in success has executed that stage and none
\* of the stages after it.
SingleStageInIsolation ==
    (cpc = "returned" /\ cresult /\ cargs.skip_to_stage # NoSkip) =>
        clog = <<cargs.skip_to_stage>>

\* a run that ended in success went through the Serve stage, whatever
\* was asked
SuccessEndsWithServe ==
    (cpc = "returned" /\ cresult) => (clog # <<>> /\ clog[Len(clog)] = "F")

(***************************************************************************)
(* Extraction records                                                      *)
(***************************************************************************)
\* a reply in which no JSON document can be found: no brace, no bracket
NothingToParse(content) ==
    /\ content \notin {NoReply, CreateRaises, NoContent}
    /\ \A i \in DOMAIN content : content[i] \in {"prose", Fence, FenceEnd}

Has(record, key) == key \in DOMAIN record

\* C32: extract_from_chunk returns a record for the chunk it was given,
\* carrying the chunk's and the article's id, so that there is one record
\* per chunk gone through, in order; and the record of a chunk whose call
\* raised or whose reply could not be parsed carries an error marker and
\* empty entities and relations.
FailureIsMarked ==
    /\ Len(results) <= Len(sample_df)
    /\ output_path => Len(results) = Len(sample_df)
    /\ \A i \in DOMAIN results :
          /\ results[i]["chunk_id"] = sample_df[i].chunk_id
          /\ results[i]["article_id"] = sample_df[i].article_id
    /\ (reply = NoReply) = (chunk_result = NoResult)
    /\ chunk_result # NoResult =>
          /\ chunk_result["chunk_id"] = sample_df[Len(results) + 1].chunk_id
          /\ chunk_result["article_id"] = sample_df[Len(results) + 1].article_id
    /\ (reply = CreateRaises \/ NothingToParse(reply)) =>
          /\ Has(chunk_result, "error")
          /\ Len(chunk_result["entities"]) = 0
          /\ Len(chunk_result["relations"]) = 0

\* one record per chunk gone through, whatever the replies were
OneRecordPerChunk ==
    /\ Len(results) <= Len(sample_df)
    /\ output_path => Len(results) = Len(sample_df)
    /\ (reply = NoReply) = (chunk_result = NoResult)
    /\ \A i \in DOMAIN results : results[i]["chunk_id"] = sample_df[i].chunk_id
    /\ chunk_result # NoResult =>
          chunk_result["chunk_id"] = sample_df[Len(results) + 1].chunk_id

(***************************************************************************)
(* The counters of the status record                                       *)
(***************************************************************************)
\* the stages from s on, as the record names them
FromStage(s) ==
    {StageIds[i] : i \in {j \in DOMAIN StageIds :
                             \E k \in DOMAIN StageIds : StageIds[k] = s /\ k <= j}}
        \cup {"Complete"}

\* C33: the step that accepts a run resets the record (every counter 0,
\* no error, not completed), and a counter is non-zero only when the
\* record is at or past the stage that produces it: the counters are
\* those of the run the record describes.
CountersOfCurrentRun ==
    /\ [](/\ \A s \in {"A", "B", "C", "D"} :
               pipeline_status.stats[StatsField(s)] # 0 =>
                  pipeline_status.current_stage \in FromStage(s)
          /\ pipeline_status.stats.relationships_created # 0 =>
                  pipeline_status.current_stage \in FromStage("D"))
    /\ [][\A h \in Handlers : (hpc[h] = "reset" /\ hpc'[h] = "spawn") =>
             /\ pipeline_status'.stats = ZeroStats
             /\ pipeline_status'.error = NoError
             /\ ~pipeline_status'.completed]_vars

(***************************************************************************)
(* The flags and the progress of the status record                         *)
(***************************************************************************)
\* C36: in every state of the record, completed implies not running,
\* stage Complete, progress 100 and no error; and running implies not
\* completed.
CompletedIsConsistent ==
    /\ pipeline_status.completed =>
          /\ ~pipeline_status.running
          /\ pipeline_status.current_stage = "Complete"
          /\ pipeline_status.progress = 100
          /\ pipeline_status.error = NoError
    /\ pipeline_status.running => ~pipeline_status.completed

Checkpoints == {0, 100} \cup {Checkpoint(s) : s \in StageSet}

\* the step with which a handler resets the record for a new run
Resets == \E h \in Handlers : hpc[h] = "reset" /\ hpc'[h] = "spawn"

\* C37: progress is one of the checkpoints 0, 10, 30, 50, 70, 90, 95, 100;
\* within a run (from one reset to the next) it never decreases; it is 100
\* only when the record says Complete; and the failure update leaves it
\* at the checkpoint of the stage the record is in.
ProgressIsMonotone ==
    /\ [](/\ pipeline_status.progress \in Checkpoints
          /\ pipeline_status.progress = 100 =>
                (pipeline_status.current_stage = "Complete" /\ pipeline_status.completed))
    /\ [][/\ ~Resets => pipeline_status'.progress >= pipeline_status.progress
          /\ \A w \in Workers : Handles(w) =>
                /\ pipeline_status'.progress = pipeline_status.progress
                /\ pipeline_status'.current_stage \in StageSet
                /\ pipeline_status'.progress = Checkpoint(pipeline_status'.current_stage)]_vars

(***************************************************************************)
(* The labels of a node                                                    *)
(***************************************************************************)
\* C38: every node of the store carries the Entity label and, beside it,
\* the label of its current type property and no other.
OneTypeLabel ==
    \A n \in nodes : n.labels = {"Entity", n.label}

(***************************************************************************)
(* The staging names                                                       *)
(***************************************************************************)
\* C39: the file a load's node statement reads is the node file that load
\* staged, and the file its edge statement reads is the edge file it
\* staged, whatever another load copies meanwhile.
LoadsItsOwnFiles ==
    [][\A l \in Loads :
          /\ (lpc[l] = "load_nodes" /\ nodes_ok'[l]) => import_dir.nodes = staged[l].nodes
          /\ (lpc[l] = "load_rels" /\ rels_ok'[l]) =>
                import_dir.relations = staged[l].relations]_vars

(***************************************************************************)
(* The transfers before the bulk loads                                     *)
(***************************************************************************)
\* a load has ended with one of its two transfers not gone through
TransferFailed(l) == lpc[l] = "idle" /\ before[l] # EmptyStore /\ ~(nodes_docker[l] /\ rels_docker[l])

\* C40: a load issues its node statement and its edge statement only
\* when both of its files were transferred; a load of which a transfer
\* failed does not report success and leaves the store as it found it.
BothTransfersFirst ==
    /\ [](\A l \in Loads :
             (lpc[l] = "idle" /\ ~(nodes_docker[l] /\ rels_docker[l])) =>
                /\ ~result[l]
                /\ ~nodes_ok[l] /\ ~rels_ok[l]
                /\ Store = before[l])
    /\ [][\A l \in Loads :
             (lpc'[l] \in {"load_nodes", "load_rels"} \/ nodes_ok'[l] \/ rels_ok'[l]
                  \/ (lpc[l] # "idle" /\ Store' # Store)) =>
                (nodes_docker'[l] /\ rels_docker'[l])]_vars

\* the nodes file was transferred, the relations file was not, over a
\* store that held data: the load has answered False
BothTransfersFirstWitness ==
    \E l \in Loads :
       /\ TransferFailed(l)
       /\ nodes_docker[l] /\ ~rels_docker[l]
       /\ ~escaped[l]
       /\ ~result[l]
       /\ import_dir.nodes # <<>>
       /\ Store = before[l]

(***************************************************************************)
(* The artifact taken for the Preprocess stage's output                    *)
(***************************************************************************)
\* a name run_preprocessing gives its output
IsPreprocessOutput(name) == \E ts \in {"t1", "t2"} : name = Chunks(ts)

\* C34: the file the look-up for the Preprocess stage's output returns is
\* a file the Preprocess stage wrote, never an output of the Extract
\* stage.
ProcessedIsNotExtracted ==
    (asked = "processed" /\ latest # FileNotFoundError) =>
        (IsPreprocessOutput(latest) /\ ~MatchesExtracted(latest))

(***************************************************************************)
(* Resolution of records without content                                   *)
(***************************************************************************)
\* no record names an entity: every mention is blank
NoMentions ==
    \A i \in DOMAIN extracted : \A j \in DOMAIN extracted[i].entities :
       Strip(extracted[i].entities[j]) = <<>>

\* no record holds a triple with a subject, a relation and an object
NoValidTriples ==
    \A i \in DOMAIN extracted : \A j \in DOMAIN extracted[i].relations :
       LET r == extracted[i].relations[j]
       IN  \/ r.subject \in {None, <<>>}
           \/ r.relation \in {None, <<>>}
           \/ r.object \in {None, <<>>}

\* C35: a resolution of records that name no entity returns an empty
\* node frame, and one of records without a valid triple returns an empty
\* edge frame; it returns all the same.
EmptyInEmptyOut ==
    rpc = "done" =>
       /\ NoMentions => resolved.nodes = <<>>
       /\ NoValidTriples => resolved.relations = <<>>

\* two records of failed extractions have been resolved to nothing
EmptyInEmptyOutWitness ==
    /\ rpc = "done"
    /\ Len(extracted) = MaxRows
    /\ \A i \in DOMAIN extracted :
          extracted[i].entities = <<>> /\ extracted[i].relations = <<>>
    /\ resolved = NoData

====
